---- MODULE Spec2Model ----
(***************************************************************************)
(* Request admission pipeline of the webhook receiver service:             *)
(* ApiKeyGuard -> SignatureGuard -> IdempotencyInterceptor ->              *)
(* ValidationPipe -> WebhooksController.create -> WebhooksService.create   *)
(* -> Repository<Webhook>, with HttpExceptionFilter shaping every error.   *)
(* Several requests are in flight at once; every await of the service is   *)
(* a point where another request may run.                                  *)
(***************************************************************************)
EXTENDS Integers, Sequences, FiniteSets, TLC

\* ---------------------------------------------------------------- bounds
MaxReqs == 2
MaxTicks == 2
DigestBytes == 2

\* ------------------------------------------------------------- constants
Undefined == "undefined"
NoId == 0
validApiKey == "default-api-key"
webhookSecret == "default-webhook-secret"
TTL == 24 * 60 * 60 * 1000

Reqs == 1..MaxReqs
Instances == {"A", "B"}
Keys == {"k1", "k2"}
MutatingMethods == {"POST", "PUT", "PATCH"}

\* JavaScript truthiness of a header value: absent and "" are both falsy.
\* A test that takes the empty string for a value.
TruthyDefined(x) == x # Undefined

Truthy(x) == x # Undefined /\ x # ""

\* The values of a sequence or function.
Range(f) == {f[x] : x \in DOMAIN f}

\* ------------------------------------------------------- request bodies
\* A parsed JSON body; a field that was not sent is Undefined.
Body(s, e, p) == [source |-> s, event |-> e, payload |-> p]
BodyStripe == Body("stripe", "payment.completed", "{orderId,amount}")
BodyGithub == Body("github", "push", "{ref}")
BodyNoSource == Body(Undefined, "payment.completed", "{orderId}")
Bodies == {BodyStripe, BodyGithub, BodyNoSource}

\* Length of the strings the bodies carry.
StrLen(s) ==
  CASE s = "" -> 0
    [] s = "stripe" -> 6
    [] s = "github" -> 6
    [] s = "payment.completed" -> 17
    [] s = "push" -> 4
    [] OTHER -> 101

\* class-validator messages of one string field of CreateWebhookDto
\* (@IsString @IsNotEmpty @MinLength(1) @MaxLength(100)).
StringFieldErrors(name, v) ==
  (IF v = Undefined \/ StrLen(v) > 100
     THEN <<name \o " must be shorter than or equal to 100 characters">> ELSE <<>>)
  \o (IF v = Undefined \/ StrLen(v) < 1
     THEN <<name \o " must be longer than or equal to 1 characters">> ELSE <<>>)
  \o (IF v = Undefined \/ v = ""
     THEN <<name \o " should not be empty">> ELSE <<>>)
  \o (IF v = Undefined THEN <<name \o " must be a string">> ELSE <<>>)

\* ValidationPipe applied to CreateWebhookDto: the list of field messages.
\* A pipe that lets every body through.
validateNothing(body) == <<>>

validate(body) ==
  StringFieldErrors("source", body.source)
  \o StringFieldErrors("event", body.event)
  \o (IF body.payload = Undefined
        THEN <<"payload should not be empty", "payload must be an object">>
        ELSE <<>>)

\* ----------------------------------------------------------- signatures
\* JSON.stringify(request.body): the canonical text of the parsed body.
JSONstringify(body) ==
  CASE body = BodyStripe -> "{\"source\":\"stripe\",...}"
    [] body = BodyGithub -> "{\"source\":\"github\",...}"
    [] body = BodyNoSource -> "{\"event\":\"payment.completed\",...}"
    [] OTHER -> "{}"

\* A body as the sender wrote it: the compact text, or the same JSON with
\* a space after every separator. JSON.parse gives the same object for both.
RawStripeSpaced == "{ \"source\": \"stripe\", ... }"
RawBodies ==
  {JSONstringify(BodyStripe), RawStripeSpaced, JSONstringify(BodyGithub)}
JSONparse(text) ==
  CASE text = JSONstringify(BodyStripe) -> BodyStripe
    [] text = RawStripeSpaced -> BodyStripe
    [] text = JSONstringify(BodyGithub) -> BodyGithub
    [] OTHER -> BodyNoSource

HexDigits == <<"0", "1", "2", "3", "4", "5", "6", "7",
               "8", "9", "a", "b", "c", "d", "e", "f">>

\* Digest bytes of HMAC(secret, payload): distinct (secret, payload) pairs
\* give distinct digests (the digest is DigestBytes bytes long here).
PayloadIndex(payload) ==
  CASE payload = JSONstringify(BodyStripe) -> 1
    [] payload = JSONstringify(BodyGithub) -> 2
    [] payload = JSONstringify(BodyNoSource) -> 3
    [] payload = RawStripeSpaced -> 5
    [] OTHER -> 4
SecretIndex(secret) ==
  CASE secret = webhookSecret -> 10
    [] secret = "my-custom-secret" -> 11
    [] secret = "wrong-secret" -> 13
    [] OTHER -> 12
createHmac(secret, payload) ==
  [i \in 1..DigestBytes |->
     ((16 * SecretIndex(secret) + PayloadIndex(payload)) * i) % 256]

\* digest('hex'): two lowercase hexadecimal characters per byte.
RECURSIVE toHex(_)
toHex(bytes) ==
  IF bytes = <<>> THEN <<>>
  ELSE <<HexDigits[(Head(bytes) \div 16) + 1], HexDigits[(Head(bytes) % 16) + 1]>>
       \o toHex(Tail(bytes))

\* SignatureService.generate
generate(payload) == toHex(createHmac(webhookSecret, payload))

\* Value of one hexadecimal character, -1 when it is none; both cases
\* of a letter are accepted by Buffer.from(s, 'hex').
HexVal(c) ==
  CASE c \in {"A", "a"} -> 10 [] c \in {"B", "b"} -> 11 [] c \in {"C", "c"} -> 12
    [] c \in {"D", "d"} -> 13 [] c \in {"E", "e"} -> 14 [] c \in {"F", "f"} -> 15
    [] c = "0" -> 0 [] c = "1" -> 1 [] c = "2" -> 2 [] c = "3" -> 3 [] c = "4" -> 4
    [] c = "5" -> 5 [] c = "6" -> 6 [] c = "7" -> 7 [] c = "8" -> 8 [] c = "9" -> 9
    [] OTHER -> 0 - 1

\* Buffer.from(s, 'hex'): decodes pairs of characters and stops at the
\* first pair that is not hexadecimal; an odd last character is dropped.
RECURSIVE BufferFromHex(_)
BufferFromHex(s) ==
  IF Len(s) < 2 THEN <<>>
  ELSE IF HexVal(s[1]) < 0 \/ HexVal(s[2]) < 0 THEN <<>>
  ELSE <<16 * HexVal(s[1]) + HexVal(s[2])>> \o BufferFromHex(SubSeq(s, 3, Len(s)))

\* A signature header is a sequence of characters. An absent header and
\* an empty one are both falsy in every test the code makes of it
\* (!signature, signature || null); both are the empty sequence here.
NoSignature == <<>>

\* crypto.timingSafeEqual: throws on buffers of different lengths.
timingSafeEqual(a, b) ==
  IF Len(a) # Len(b) THEN [threw |-> TRUE, value |-> FALSE]
  ELSE [threw |-> FALSE, value |-> a = b]

\* SignatureService.verify (a throw inside the try block is caught and
\* answered false)
verify(payload, signature) ==
  IF signature = NoSignature THEN FALSE
  ELSE LET expectedSignature == generate(payload)
           sigBuffer == BufferFromHex(signature)
           expectedBuffer == BufferFromHex(expectedSignature)
           equal == timingSafeEqual(sigBuffer, expectedBuffer)
       IN IF Len(sigBuffer) # Len(expectedBuffer) THEN FALSE
          ELSE IF equal.threw THEN FALSE
          ELSE equal.value

\* A verification that ignores the secret it is given.
verifyIgnoringSecret(payload, signature, secret) == verify(payload, signature)

\* SignatureService.verifyWithSecret
verifyWithSecret(payload, signature, secret) ==
  IF signature = NoSignature \/ ~Truthy(secret) THEN FALSE
  ELSE LET expectedSignature == toHex(createHmac(secret, payload))
           sigBuffer == BufferFromHex(signature)
           expectedBuffer == BufferFromHex(expectedSignature)
           equal == timingSafeEqual(sigBuffer, expectedBuffer)
       IN IF Len(sigBuffer) # Len(expectedBuffer) THEN FALSE
          ELSE IF equal.threw THEN FALSE
          ELSE equal.value

\* ------------------------------------------------------------ exceptions
HttpException(status, message) ==
  [kind |-> "HttpException", status |-> status, message |-> message, list |-> <<>>]
UnauthorizedException(message) == HttpException(401, message)
ForbiddenException(message) == HttpException(403, message)
\* ValidationPipe's BadRequestException: its response message is an array.
BadRequestException(messages) ==
  [kind |-> "HttpException", status |-> 400, message |-> "Bad Request", list |-> messages]
\* The driver's error for a violated unique constraint: not an HttpException.
QueryFailedError ==
  [kind |-> "Error", status |-> 0,
   message |-> "UNIQUE constraint failed: webhooks.idempotencyKey", list |-> <<>>]

Response(status, id, message, errors) ==
  [statusCode |-> status, id |-> id, message |-> message, errors |-> errors]
NoResponse == Response(0, NoId, "", <<>>)

\* A filter that answers with the fault's own message.
catchLeaky(exception) ==
  IF exception.kind = "HttpException"
    THEN IF exception.list # <<>>
           THEN [statusCode |-> exception.status, id |-> 0,
                 message |-> "Validation failed", errors |-> exception.list]
           ELSE [statusCode |-> exception.status, id |-> 0,
                 message |-> exception.message, errors |-> <<>>]
    ELSE [statusCode |-> 500, id |-> 0, message |-> exception.message, errors |-> <<>>]

\* A filter that does not recognise the array of validation messages.
catchNoArray(exception) ==
  IF exception.kind = "HttpException"
    THEN Response(exception.status, NoId, exception.message, <<>>)
    ELSE Response(500, NoId, "Internal server error", <<>>)

\* HttpExceptionFilter.catch
catch(exception) ==
  IF exception.kind = "HttpException"
    THEN IF exception.list # <<>>
           THEN Response(exception.status, NoId, "Validation failed", exception.list)
           ELSE Response(exception.status, NoId, exception.message, <<>>)
    ELSE Response(500, NoId, "Internal server error", <<>>)

\* ----------------------------------------------------------------- gates
\* A guard's decision, with the calls of SignatureService.verify it made.
Admit == [admit |-> TRUE, exception |-> HttpException(0, ""), verifyCalls |-> <<>>]
Deny(exception) == [admit |-> FALSE, exception |-> exception, verifyCalls |-> <<>>]

\* ApiKeyGuard.canActivate
ApiKeyGuard_canActivate(isPublic, apiKey) ==
  IF isPublic THEN Admit
  ELSE IF ~Truthy(apiKey) THEN Deny(UnauthorizedException("API key is required"))
  ELSE IF apiKey # validApiKey THEN Deny(UnauthorizedException("Invalid API key"))
  ELSE Admit

\* A guard that asks a signature of every method.
SignatureGuardAllMethods(skipSignature, method, signature, body) ==
  IF skipSignature THEN Admit
  ELSE IF signature = NoSignature
    THEN Deny(ForbiddenException("Webhook signature is required"))
  ELSE LET call == <<[payload |-> JSONstringify(body), signature |-> signature]>>
       IN IF ~verify(JSONstringify(body), signature)
            THEN [Deny(ForbiddenException("Invalid webhook signature"))
                    EXCEPT !.verifyCalls = call]
            ELSE [Admit EXCEPT !.verifyCalls = call]

\* SignatureGuard.canActivate
SignatureGuard_canActivate(skipSignature, method, signature, body) ==
  IF skipSignature THEN Admit
  ELSE IF method \notin MutatingMethods THEN Admit
  ELSE IF signature = NoSignature
    THEN Deny(ForbiddenException("Webhook signature is required"))
  ELSE LET rawBody == JSONstringify(body)
           call == <<[payload |-> rawBody, signature |-> signature]>>
       IN IF ~verify(rawBody, signature)
            THEN [Deny(ForbiddenException("Invalid webhook signature"))
                    EXCEPT !.verifyCalls = call]
            ELSE [Admit EXCEPT !.verifyCalls = call]

\* ------------------------------------------------------------ the store
\* An entity built without its key.
WebhookNoKey(id, body, signature, idempotencyKey, receivedAt) ==
  [id |-> id, source |-> body.source, event |-> body.event, payload |-> body.payload,
   signature |-> signature, idempotencyKey |-> Undefined,
   receivedAt |-> receivedAt, status |-> "pending"]

\* An entity written as already processed.
WebhookProcessed(id, body, signature, idempotencyKey, receivedAt) ==
  [id |-> id, source |-> body.source, event |-> body.event, payload |-> body.payload,
   signature |-> signature, idempotencyKey |-> idempotencyKey,
   receivedAt |-> receivedAt, status |-> "processed"]

\* An entity built without the signature.
WebhookNoSignature(id, body, signature, idempotencyKey, receivedAt) ==
  [id |-> id, source |-> body.source, event |-> body.event, payload |-> body.payload,
   signature |-> NoSignature, idempotencyKey |-> idempotencyKey,
   receivedAt |-> receivedAt, status |-> "pending"]

\* A Webhook entity row. idempotencyKey and signature are null (Undefined,
\* NoSignature) when the request carried none.
Webhook(id, body, signature, idempotencyKey, receivedAt) ==
  [id |-> id, source |-> body.source, event |-> body.event, payload |-> body.payload,
   signature |-> signature, idempotencyKey |-> idempotencyKey,
   receivedAt |-> receivedAt, status |-> "pending"]

\* A lookup that never finds the row (the wrong column is compared).
findByKeyNone(rows, key) == {w \in rows : w.idempotencyKey = key /\ w.id = NoId}

\* Repository.findOne({where: {idempotencyKey}}): the rows with that key.
findByKey(rows, key) == {w \in rows : w.idempotencyKey = key}

\* The table without unique: true on idempotencyKey.
UniqueViolationPrimaryOnly(rows, w) == \E x \in rows : x.id = w.id

\* A unique column in which two nulls collide.
UniqueViolationNullsEqual(rows, w) ==
  \/ \E x \in rows : x.id = w.id
  \/ \E x \in rows : x.idempotencyKey = w.idempotencyKey

\* The table's constraints (primary key id, unique idempotencyKey; NULL keys
\* never collide): whether inserting w is rejected.
UniqueViolation(rows, w) ==
  \/ \E x \in rows : x.id = w.id
  \/ /\ w.idempotencyKey # Undefined
     /\ \E x \in rows : x.idempotencyKey = w.idempotencyKey

\* An insert that reports success and writes nothing.
saveLost(rows, w) == [rows |-> rows, ok |-> TRUE]

\* A save that inserts whatever the table holds.
saveUnchecked(rows, w) == [ok |-> TRUE, rows |-> rows \cup {w}]

\* A save that inserts the row and then reports a rejection.
saveThenReject(rows, w) == [ok |-> FALSE, rows |-> rows \cup {w}]

\* Repository.save of a new entity: the insert, or the driver's rejection.
save(rows, w) ==
  IF UniqueViolation(rows, w)
    THEN [ok |-> FALSE, rows |-> rows]
    ELSE [ok |-> TRUE, rows |-> rows \cup {w}]

VARIABLES
  store,      \* rows of the webhooks table, shared by every instance
  cache,      \* cache[i][k]: IdempotencyInterceptor.cache of instance i
  now,        \* Date.now()
  nextId,     \* the next identifier uuidv4() hands out
  req,        \* req[r]: the request r, its position and what it did
  ticks,      \* clock advances so far
  instances,  \* the processes that serve requests against the one table
  probe       \* a direct call of a guard or of SignatureService, and its result

vars == <<store, cache, now, nextId, req, ticks, instances, probe>>

\* An entry that holds an error instead of the handler's response.
EntryOfError(data, timestamp) ==
  [data |-> [id |-> NoId, message |-> "Internal server error"], timestamp |-> timestamp]

NoData == [id |-> NoId, message |-> ""]
NoEntry == [data |-> NoData, timestamp |-> 0 - 1]
Entry(data, timestamp) == [data |-> data, timestamp |-> timestamp]
EmptyCache == [k \in Keys |-> NoEntry]

IdleRequest ==
  [pc |-> "idle", inst |-> "A", method |-> "POST", signature |-> NoSignature,
   idempotencyKey |-> Undefined, body |-> BodyStripe, bodyValid |-> FALSE,
   tap |-> FALSE, webhook |-> NoId, isNew |-> FALSE, resp |-> NoResponse, trace |-> <<>>]

\* Positions of a request that awaits the database or its own continuation.
InFlight == {"find", "save", "respond"}

\* The API key headers and, for body b, the signature headers a sender may attach.
ApiKeyHeaders == {Undefined, validApiKey, "invalid-key"}
SignatureHeaders(b) ==
  {NoSignature, generate(JSONstringify(b)), generate("{\"tampered\":true}")}

\* A sweep that also removes the entry aged exactly the retention window.
cleanExpiredEntriesEager(c, t) ==
  [k \in Keys |-> IF c[k] # NoEntry /\ t - c[k].timestamp >= TTL THEN NoEntry ELSE c[k]]

\* No sweep at all.
cleanExpiredEntriesNone(c, t) == c

\* IdempotencyInterceptor.cleanExpiredEntries on one instance's map.
cleanExpiredEntries(c, t) ==
  [k \in Keys |-> IF c[k] # NoEntry /\ t - c[k].timestamp > TTL THEN NoEntry ELSE c[k]]

\* An interceptor that consults the map for every method.
interceptEveryMethod(c, t, method, key) ==
  IF ~Truthy(key)
    THEN [applies |-> FALSE, cache |-> c, cached |-> NoEntry]
    ELSE LET swept == cleanExpiredEntries(c, t)
         IN [applies |-> TRUE, cache |-> swept, cached |-> swept[key]]

\* IdempotencyInterceptor.intercept up to next.handle(): whether the map is
\* consulted at all, the map after the sweep, and the entry found in it.
intercept(c, t, method, key) ==
  IF method \notin MutatingMethods \/ ~Truthy(key)
    THEN [applies |-> FALSE, cache |-> c, cached |-> NoEntry]
    ELSE LET swept == cleanExpiredEntries(c, t)
         IN [applies |-> TRUE, cache |-> swept, cached |-> swept[key]]

\* The guards' and the pipe's verdicts on every header and body a sender may
\* attach, computed once.
Posts ==
  UNION {{[apiKey |-> a, signature |-> s, key |-> k, body |-> b] :
            s \in SignatureHeaders(b)} :
           a \in ApiKeyHeaders, k \in Keys \cup {Undefined}, b \in Bodies}
ApiKeyVerdict == [a \in ApiKeyHeaders |-> ApiKeyGuard_canActivate(FALSE, a)]
SignatureVerdict ==
  [b \in Bodies |-> [s \in SignatureHeaders(b) |->
     SignatureGuard_canActivate(FALSE, "POST", s, b)]]
ValidationErrors == [b \in Bodies |-> validate(b)]
SignatureOf == [b \in Bodies |-> generate(JSONstringify(b))]

\* The order the README draws: the interceptor ahead of the guards.
AdmissionInterceptorFirst(c, t, apiKey, signature, key, body) ==
  LET apiKeyGate == ApiKeyVerdict[apiKey]
      signatureGate == SignatureVerdict[body][signature]
      idem == intercept(c, t, "POST", key)
      errors == ValidationErrors[body]
      first == IF idem.applies /\ idem.cached = NoEntry THEN "Idempotency.miss"
               ELSE "Idempotency.skip"
      Out(pc, resp, trace, tap, cc) ==
        [pc |-> pc, resp |-> resp, trace |-> trace, tap |-> tap, cache |-> cc]
  IN IF idem.applies /\ idem.cached # NoEntry
       THEN Out("done",
                Response(201, idem.cached.data.id, idem.cached.data.message, <<>>),
                <<"Idempotency.hit">>, FALSE, idem.cache)
     ELSE IF ~apiKeyGate.admit
       THEN Out("done", catch(apiKeyGate.exception), <<first, "ApiKeyGuard">>,
                FALSE, idem.cache)
     ELSE IF ~signatureGate.admit
       THEN Out("done", catch(signatureGate.exception),
                <<first, "ApiKeyGuard", "SignatureGuard">>, FALSE, idem.cache)
     ELSE IF errors # <<>>
       THEN Out("done", catch(BadRequestException(errors)),
                <<first, "ApiKeyGuard", "SignatureGuard", "ValidationPipe">>,
                FALSE, idem.cache)
     ELSE IF Truthy(key)
       THEN Out("find", NoResponse,
                <<first, "ApiKeyGuard", "SignatureGuard", "ValidationPipe",
                  "create", "findOne">>, idem.applies, idem.cache)
     ELSE Out("save", NoResponse,
              <<first, "ApiKeyGuard", "SignatureGuard", "ValidationPipe", "create">>,
              idem.applies, idem.cache)

\* The synchronous part of POST /api/v1/webhooks, in the order the framework
\* runs it: the global guard ApiKeyGuard, the route guard SignatureGuard, the
\* global interceptor IdempotencyInterceptor, the global ValidationPipe, then
\* WebhooksController.create and WebhooksService.create up to its first
\* await. Gives the request's position, its response if it is answered
\* here, the stages it reached and the instance's map afterwards.
Admission(c, t, apiKey, signature, key, body) ==
  LET apiKeyGate == ApiKeyVerdict[apiKey]
      signatureGate == SignatureVerdict[body][signature]
      idem == intercept(c, t, "POST", key)
      errors == ValidationErrors[body]
      Out(pc, resp, trace, tap, cc) ==
        [pc |-> pc, resp |-> resp, trace |-> trace, tap |-> tap, cache |-> cc]
  IN IF ~apiKeyGate.admit
       THEN Out("done", catch(apiKeyGate.exception), <<"ApiKeyGuard">>, FALSE, c)
     ELSE IF ~signatureGate.admit
       THEN Out("done", catch(signatureGate.exception),
                <<"ApiKeyGuard", "SignatureGuard">>, FALSE, c)
     ELSE IF idem.applies /\ idem.cached # NoEntry
       THEN Out("done",
                Response(201, idem.cached.data.id, idem.cached.data.message, <<>>),
                <<"ApiKeyGuard", "SignatureGuard", "Idempotency.hit">>,
                FALSE, idem.cache)
     ELSE LET stages == <<"ApiKeyGuard", "SignatureGuard",
                          IF idem.applies THEN "Idempotency.miss"
                                          ELSE "Idempotency.skip",
                          "ValidationPipe">>
          IN IF errors # <<>>
               THEN Out("done", catch(BadRequestException(errors)), stages,
                        FALSE, idem.cache)
             ELSE IF Truthy(key)
               THEN Out("find", NoResponse, stages \o <<"create", "findOne">>,
                        idem.applies, idem.cache)
             ELSE Out("save", NoResponse, stages \o <<"create">>,
                      idem.applies, idem.cache)

\* No direct call is being made.
\* A page or limit that the query string does not carry.
NoNumber == -1
\* A query without parameters, and the meta of no result.
NoQuery == [page |-> NoNumber, limit |-> NoNumber, source |-> Undefined, event |-> Undefined]
NoMeta == [total |-> 0, page |-> 0, limit |-> 0, totalPages |-> 0]

\* The body of no response.
NoBody == [statusCode |-> 0, message |-> "", requestId |-> "", timestamp |-> 0, path |-> ""]

NoProbe ==
  [op |-> "none", pc |-> "returned", payload |-> "", signature |-> NoSignature,
   secret |-> "", skipSignature |-> FALSE, method |-> "", apiKey |-> "",
   isPublic |-> FALSE, value |-> FALSE, statusCode |-> 0, message |-> "",
   verifyCalls |-> <<>>, id |-> NoId, query |-> NoQuery, found |-> {},
   data |-> <<>>, meta |-> NoMeta, total |-> 0,
   xRequestId |-> Undefined, requestId |-> "", url |-> "",
   exception |-> HttpException(0, ""), responseHeader |-> "", body |-> NoBody]

Init ==
  /\ store = {}
  /\ cache = [i \in Instances |-> EmptyCache]
  /\ now = 0
  /\ nextId = 1
  /\ req = [r \in Reqs |-> IdleRequest]
  /\ ticks = 0
  /\ instances = {"A"}
  /\ probe = NoProbe

\* The response is sent: what stays of the request is its key, whether its
\* body was valid, what create returned to it, the stages it went through
\* and the response.
Finish(r, response, trace) ==
  [req EXCEPT ![r] = [IdleRequest EXCEPT
     !.pc = "done", !.idempotencyKey = req[r].idempotencyKey,
     !.bodyValid = req[r].bodyValid,
     !.webhook = req[r].webhook, !.isNew = req[r].isNew,
     !.resp = response, !.trace = trace]]

\* What the synchronous part leaves of a request with these headers and
\* body at instance i: the request's record and the instance's map. Of a
\* request that a guard denied nothing but the response is kept.
Received(i, apiKey, signature, key, body) ==
  LET out == Admission(cache[i], now, apiKey, signature, key, body)
  IN [cache |-> out.cache,
      req |-> IF out.pc = "done"
                THEN IF out.resp.statusCode \in {401, 403}
                       THEN [IdleRequest EXCEPT !.pc = "done", !.resp = out.resp,
                                                !.trace = out.trace]
                       ELSE [IdleRequest EXCEPT
                               !.pc = "done", !.idempotencyKey = key,
                               !.bodyValid = (ValidationErrors[body] = <<>>),
                               !.resp = out.resp, !.trace = out.trace]
                ELSE [IdleRequest EXCEPT
                        !.pc = out.pc, !.inst = i, !.signature = signature,
                        !.idempotencyKey = key, !.body = body,
                        !.bodyValid = (ValidationErrors[body] = <<>>), !.tap = out.tap,
                        !.trace = out.trace]]

\* A POST /api/v1/webhooks arrives at instance i and runs until it is
\* answered or awaits the database (requests are numbered in the order of
\* their arrival).
Receive(r) ==
  /\ req[r].pc = "idle"
  /\ \A q \in Reqs : q < r => req[q].pc # "idle"
  /\ \E i \in instances :
       \E got \in {Received(i, p.apiKey, p.signature, p.key, p.body) : p \in Posts} :
         /\ cache' = [cache EXCEPT ![i] = got.cache]
         /\ req' = [req EXCEPT ![r] = got.req]
  /\ UNCHANGED <<store, now, nextId, ticks, instances, probe>>

\* The database answers WebhooksService.create's lookup by key.
CreateFindStep(r) ==
  /\ req[r].pc = "find"
  /\ LET existing == findByKey(store, req[r].idempotencyKey)
     IN req' = IF existing # {}
                 THEN [req EXCEPT ![r].pc = "respond",
                         ![r].webhook = (CHOOSE w \in existing : TRUE).id,
                         ![r].isNew = FALSE,
                         ![r].trace = Append(@, "found")]
                 ELSE [req EXCEPT ![r].pc = "save",
                                  ![r].trace = Append(@, "none")]
  /\ UNCHANGED <<store, cache, now, nextId, ticks, instances, probe>>

\* WebhooksService.create from repository.create to the awaited save. A
\* rejected insert raises out of create and the handler; nothing catches it
\* before HttpExceptionFilter.
CreateSaveStep(r) ==
  /\ req[r].pc = "save"
  /\ LET key == req[r].idempotencyKey
         webhook == Webhook(nextId, req[r].body, req[r].signature,
                            IF Truthy(key) THEN key ELSE Undefined, now)
         saved == save(store, webhook)
     IN /\ store' = saved.rows
        /\ req' = IF saved.ok
                    THEN [req EXCEPT ![r].pc = "respond", ![r].webhook = webhook.id,
                                     ![r].isNew = TRUE,
                                     ![r].trace = Append(@, "save")]
                    ELSE Finish(r, catch(QueryFailedError),
                                Append(req[r].trace, "save.rejected"))
  /\ nextId' = nextId + 1
  /\ UNCHANGED <<cache, now, ticks, instances, probe>>

\* A handler that reports every record as new.
createResponseReceived(webhookId, isNew) ==
  [id |-> webhookId, message |-> "Webhook received"]

\* WebhooksController.create's return value
createResponse(webhookId, isNew) ==
  [id |-> webhookId,
   message |-> IF isNew THEN "Webhook received"
                        ELSE "Webhook already processed (idempotent)"]

\* create has returned: the controller shapes the response, the
\* interceptor's tap stores it under the key, and 201 is sent.
RespondStep(r) ==
  /\ req[r].pc = "respond"
  /\ LET data == createResponse(req[r].webhook, req[r].isNew)
     IN /\ cache' = IF req[r].tap
                      THEN [cache EXCEPT ![req[r].inst][req[r].idempotencyKey] =
                                            Entry(data, now)]
                      ELSE cache
        /\ req' = Finish(r, Response(201, data.id, data.message, <<>>),
                         Append(req[r].trace, "respond"))
  /\ UNCHANGED <<store, now, nextId, ticks, instances, probe>>

\* Time passes, a retention window at a time, for as long as some map holds
\* an entry that is yet to expire (after that the clock's value shows in
\* nothing but receivedAt).
Tick ==
  /\ ticks < MaxTicks
  /\ \E i \in instances : \E k \in Keys :
       cache[i][k] # NoEntry /\ now - cache[i][k].timestamp <= TTL
  /\ now' = now + TTL
  /\ ticks' = ticks + 1
  /\ UNCHANGED <<store, cache, nextId, req, instances, probe>>

\* The process of instance i restarts: its in-memory map is lost and the
\* requests it was handling are never answered. The table survives.
Restart(i) ==
  /\ i \in instances
  /\ \/ cache[i] # EmptyCache
     \/ \E r \in Reqs : req[r].inst = i /\ req[r].pc \in InFlight
  /\ cache' = [cache EXCEPT ![i] = EmptyCache]
  /\ req' = [r \in Reqs |->
               IF req[r].inst = i /\ req[r].pc \in InFlight
                 THEN [IdleRequest EXCEPT !.pc = "aborted"] ELSE req[r]]
  /\ UNCHANGED <<store, now, nextId, ticks, instances, probe>>

Next ==
  \/ \E r \in Reqs : Receive(r)
  \/ \E r \in Reqs : CreateFindStep(r)
  \/ \E r \in Reqs : CreateSaveStep(r)
  \/ \E r \in Reqs : RespondStep(r)
  \/ Tick
  \/ \E i \in Instances : Restart(i)

Spec == Init /\ [][Next]_vars

\* Several processes with a map each in front of the one table.
InitCluster ==
  /\ store = {}
  /\ cache = [i \in Instances |-> EmptyCache]
  /\ now = 0
  /\ nextId = 1
  /\ req = [r \in Reqs |-> IdleRequest]
  /\ ticks = 0
  /\ instances = Instances
  /\ probe = NoProbe

\* Deliveries of senders that hold the API key and the secret and use
\* idempotency keys: both guards admit the request and it carries a key.
ReceiveKeyed(r) ==
  /\ Receive(r)
  /\ Len(req'[r].trace) >= 3
  /\ Truthy(req'[r].idempotencyKey)

NextCluster ==
  \/ \E r \in Reqs : ReceiveKeyed(r)
  \/ \E r \in Reqs : CreateFindStep(r)
  \/ \E r \in Reqs : CreateSaveStep(r)
  \/ \E r \in Reqs : RespondStep(r)
  \/ Tick
  \/ \E i \in Instances : Restart(i)

SpecCluster == InitCluster /\ [][NextCluster]_vars

\* Such deliveries that do not overlap: a request arrives only when no
\* request with its key is still being handled.
ReceiveSeq(r) ==
  /\ ReceiveKeyed(r)
  /\ \A q \in Reqs \ {r} :
        req[q].pc \in InFlight /\ Truthy(req[q].idempotencyKey)
          => req'[r].idempotencyKey # req[q].idempotencyKey

NextSeq ==
  \/ \E r \in Reqs : ReceiveSeq(r)
  \/ \E r \in Reqs : CreateFindStep(r)
  \/ \E r \in Reqs : CreateSaveStep(r)
  \/ \E r \in Reqs : RespondStep(r)
  \/ Tick
  \/ \E i \in Instances : Restart(i)

SpecSeq == Init /\ [][NextSeq]_vars

\* POST /api/v1/webhooks alone, on one running instance: requests with and
\* without key, admitted and refused, overlapping in any way.
NextPost ==
  \/ \E r \in Reqs : Receive(r)
  \/ \E r \in Reqs : CreateFindStep(r)
  \/ \E r \in Reqs : CreateSaveStep(r)
  \/ \E r \in Reqs : RespondStep(r)

SpecPost == Init /\ [][NextPost]_vars

\* Deliveries and retries under one idempotency key on a running instance:
\* one request more than elsewhere, so that a retry can follow two racing
\* deliveries. The event loop runs every continuation that is ready and
\* the database answers every query.
RetryReqs == 1..(MaxReqs + 1)
RetryKey == "k1"

InitRetry ==
  /\ store = {}
  /\ cache = [i \in Instances |-> EmptyCache]
  /\ now = 0
  /\ nextId = 1
  /\ req = [r \in RetryReqs |-> IdleRequest]
  /\ ticks = 0
  /\ instances = {"A"}
  /\ probe = NoProbe

ReceiveRetry(r) ==
  /\ ReceiveKeyed(r)
  /\ req'[r].idempotencyKey = RetryKey

\* The continuation of request r that is ready.
Continue(r) == CreateFindStep(r) \/ CreateSaveStep(r) \/ RespondStep(r)

NextRetry ==
  \/ \E r \in RetryReqs : ReceiveRetry(r)
  \/ \E r \in RetryReqs : CreateFindStep(r)
  \/ \E r \in RetryReqs : CreateSaveStep(r)
  \/ \E r \in RetryReqs : RespondStep(r)
  \/ Tick

SpecRetry ==
  /\ InitRetry /\ [][NextRetry]_vars
  /\ \A r \in RetryReqs : WF_vars(Continue(r))

TypeOK ==
  /\ \A w \in store : w.id \in 1..(nextId - 1)
  /\ now >= 0
  /\ \A r \in Reqs : req[r].pc \in InFlight \cup {"idle", "done", "aborted"}

\* ---------------------------------------------------------- direct calls
\* The guards and SignatureService called on their own, as their unit tests
\* call them: the probe holds one call, then its result.
OtherLetter == [c \in {"a", "b", "c", "d", "e", "f"} |->
  CASE c = "a" -> "A" [] c = "b" -> "B" [] c = "c" -> "C"
    [] c = "d" -> "D" [] c = "e" -> "E" [] c = "f" -> "F"]
\* String.prototype.toUpperCase on a signature
toUpperCase(sig) ==
  [n \in DOMAIN sig |-> IF sig[n] \in DOMAIN OtherLetter THEN OtherLetter[sig[n]]
                        ELSE sig[n]]
\* The characters a signature header is made of here.
Alphabet == Range(HexDigits) \cup Range(OtherLetter) \cup {"g", "z", "-"}
\* sig with its n-th character replaced by c
Replaced(sig, n, c) == [sig EXCEPT ![n] = c]
SingleReplacements(sig) ==
  {Replaced(sig, n, c) : n \in DOMAIN sig, c \in Alphabet} \ {sig}
Payloads == RawBodies \cup {"{\"tampered\":true}"}
Secrets == {webhookSecret, "my-custom-secret", "wrong-secret", "", Undefined}
\* Signature headers tried against payload P: none, the digest, the digest
\* with one character replaced, in upper case, cut short, with characters
\* appended, digests of other payloads and under other secrets, and text
\* that is not hexadecimal at all.
SignatureCandidates(P) ==
  LET sig == generate(P)
  IN {NoSignature, sig, toUpperCase(sig)}
     \cup SingleReplacements(sig)
     \cup {SubSeq(sig, 1, Len(sig) - 1), SubSeq(sig, 1, Len(sig) - 2)}
     \cup {sig \o <<"0">>, sig \o <<"z">>, sig \o <<"z", "z">>, sig \o <<"0", "0">>}
     \cup {generate(Q) : Q \in Payloads}
     \cup {toHex(createHmac(K, P)) : K \in Secrets \ {"", Undefined}}
     \cup {[n \in 1..(2 * DigestBytes) |-> "z"], <<"a", "b", "c", "1", "2", "3">>}
GuardSignatures(P) ==
  {NoSignature, generate(P), generate(JSONstringify(JSONparse(P))),
   generate("{\"tampered\":true}"), toUpperCase(generate(P)),
   generate(JSONstringify(JSONparse(P))) \o <<"z">>}
Methods == {"GET", "DELETE", "POST", "PUT", "PATCH"}

VerifyCalls ==
  UNION {{[NoProbe EXCEPT !.op = "verify", !.pc = "call", !.payload = P,
                          !.signature = sig] : sig \in SignatureCandidates(P)} :
           P \in Payloads}
VerifyWithSecretCalls ==
  UNION {{[NoProbe EXCEPT !.op = "verifyWithSecret", !.pc = "call", !.payload = P,
                          !.signature = sig, !.secret = K] :
            sig \in {NoSignature, generate(P), toHex(createHmac("wrong-secret", P)),
                     toHex(createHmac("my-custom-secret", P)),
                     toHex(createHmac("", P)),
                     SubSeq(generate(P), 1, 2), generate("{\"tampered\":true}")}} :
           P \in Payloads, K \in Secrets}
SignatureGuardCalls ==
  UNION {{[NoProbe EXCEPT !.op = "SignatureGuard", !.pc = "call", !.payload = P,
                          !.signature = sig, !.skipSignature = skip, !.method = m] :
            sig \in GuardSignatures(P)} :
           P \in RawBodies, skip \in BOOLEAN, m \in Methods}
ApiKeyGuardCalls ==
  {[NoProbe EXCEPT !.op = "ApiKeyGuard", !.pc = "call", !.apiKey = a,
                   !.isPublic = pub] :
     a \in ApiKeyHeaders \cup {"", "default-api-ke", "default-api-key-1",
                               "DEFAULT-API-KEY"},
     pub \in BOOLEAN}

InitCalls ==
  /\ store = {}
  /\ cache = [i \in Instances |-> EmptyCache]
  /\ now = 0
  /\ nextId = 1
  /\ req = [r \in Reqs |-> IdleRequest]
  /\ ticks = 0
  /\ instances = {"A"}
  /\ probe \in VerifyCalls \cup VerifyWithSecretCalls \cup SignatureGuardCalls
                \cup ApiKeyGuardCalls

\* service.verify(payload, signature)
VerifyCall ==
  /\ probe.op = "verify" /\ probe.pc = "call"
  /\ probe' = [probe EXCEPT !.pc = "returned",
                            !.value = verify(probe.payload, probe.signature)]
  /\ UNCHANGED <<store, cache, now, nextId, req, ticks, instances>>

\* service.verifyWithSecret(payload, signature, secret)
VerifyWithSecretCall ==
  /\ probe.op = "verifyWithSecret" /\ probe.pc = "call"
  /\ probe' = [probe EXCEPT !.pc = "returned",
                 !.value = verifyWithSecret(probe.payload, probe.signature,
                                            probe.secret)]
  /\ UNCHANGED <<store, cache, now, nextId, req, ticks, instances>>

\* What a guard's decision shows to the caller: admitted, or the response
\* the filter makes of the exception.
Decided(gate) ==
  [probe EXCEPT !.pc = "returned", !.value = gate.admit,
                !.statusCode = IF gate.admit THEN 0 ELSE catch(gate.exception).statusCode,
                !.message = IF gate.admit THEN "" ELSE catch(gate.exception).message,
                !.verifyCalls = gate.verifyCalls]

\* guard.canActivate(context) of SignatureGuard for a request whose body
\* the sender wrote as probe.payload and the body parser has parsed.
SignatureGuardCall ==
  /\ probe.op = "SignatureGuard" /\ probe.pc = "call"
  /\ probe' = Decided(SignatureGuard_canActivate(probe.skipSignature, probe.method,
                        probe.signature, JSONparse(probe.payload)))
  /\ UNCHANGED <<store, cache, now, nextId, req, ticks, instances>>

\* guard.canActivate(context) of ApiKeyGuard
ApiKeyGuardCall ==
  /\ probe.op = "ApiKeyGuard" /\ probe.pc = "call"
  /\ probe' = Decided(ApiKeyGuard_canActivate(probe.isPublic, probe.apiKey))
  /\ UNCHANGED <<store, cache, now, nextId, req, ticks, instances>>

NextCalls ==
  \/ VerifyCall
  \/ VerifyWithSecretCall
  \/ SignatureGuardCall
  \/ ApiKeyGuardCall

SpecCalls == InitCalls /\ [][NextCalls]_vars

\* ------------------------------------------------------------------ reads
\* The read operations of WebhooksService, called while requests are being
\* handled: the probe holds the last call and what it returned.
DefaultPage == 1
DefaultLimit == 20
Pages == {NoNumber, 2}
Limits == {NoNumber, 1}
SourceFilters == {Undefined, "stripe"}
EventFilters == {Undefined, "push"}
Queries ==
  [page : Pages, limit : Limits, source : SourceFilters, event : EventFilters]

NotFoundException(message) == HttpException(404, message)

\* A mapping that hands out the entity itself.
fromEntityWhole(w) == w

\* WebhookResponseDto.fromEntity: the entity without signature and key.
fromEntity(w) ==
  [id |-> w.id, source |-> w.source, event |-> w.event, payload |-> w.payload,
   receivedAt |-> w.receivedAt, status |-> w.status]

\* Math.floor(total / limit)
floor(total, limit) == total \div limit

\* Math.ceil(total / limit) for a positive limit.
ceil(total, limit) == (total + limit - 1) \div limit

\* The rows the query builder's where-clauses select.
andWhere(rows, source, event) ==
  {w \in rows : /\ Truthy(source) => w.source = source
                /\ Truthy(event) => w.event = event}

\* The orders in which the database may return rows for ORDER BY
\* receivedAt DESC: rows with equal receivedAt come in any order.
RECURSIVE orderBy(_)
orderBy(rows) ==
  IF rows = {} THEN {<<>>}
  ELSE UNION {{<<w>> \o o : o \in orderBy(rows \ {w})} :
                w \in {x \in rows : \A y \in rows : x.receivedAt >= y.receivedAt}}

\* OFFSET skip LIMIT take on an ordered result.
skipTake(o, skip, take) ==
  LET last == IF skip + take < Len(o) THEN skip + take ELSE Len(o)
  IN [i \in 1..(IF last > skip THEN last - skip ELSE 0) |-> o[skip + i]]

\* WebhooksService.findAll: the results it can return for a query.
findAll(rows, query) ==
  LET page == IF query.page = NoNumber THEN DefaultPage ELSE query.page
      limit == IF query.limit = NoNumber THEN DefaultLimit ELSE query.limit
      skip == (page - 1) * limit
      matching == andWhere(rows, query.source, query.event)
      total == Cardinality(matching)
  IN {[data |-> [i \in DOMAIN skipTake(o, skip, limit) |->
                   fromEntity(skipTake(o, skip, limit)[i])],
       meta |-> [total |-> total, page |-> page, limit |-> limit,
                 totalPages |-> ceil(total, limit)]] : o \in orderBy(matching)}

\* The message of findOne's NotFoundException.
notFound(id) == "Webhook with ID \"" \o ToString(id) \o "\" not found"

\* A lookup that answers with any row when the id is not there.
findOneAny(rows, id) ==
  IF rows = {}
    THEN [webhook |-> {}, exception |-> {NotFoundException(notFound(id))}]
    ELSE [webhook |-> {CHOOSE w \in rows : TRUE}, exception |-> {}]

\* WebhooksService.findOne: the row it returns or the exception it throws.
findOne(rows, id) ==
  IF \E w \in rows : w.id = id
    THEN [webhook |-> {w \in rows : w.id = id}, exception |-> {}]
    ELSE [webhook |-> {}, exception |-> {NotFoundException(notFound(id))}]

\* WebhooksService.count
count(rows) == Cardinality(rows)

\* service.findOne(id), for the ids issued so far and the next one.
FindOneCall ==
  /\ probe = NoProbe
  /\ \E id \in 1..nextId :
       LET out == findOne(store, id)
       IN probe' = [NoProbe EXCEPT !.op = "findOne", !.id = id,
                      !.found = out.webhook,
                      !.statusCode = IF out.exception = {} THEN 200
                                     ELSE catch(CHOOSE e \in out.exception : TRUE).statusCode,
                      !.message = IF out.exception = {} THEN ""
                                  ELSE catch(CHOOSE e \in out.exception : TRUE).message]
  /\ UNCHANGED <<store, cache, now, nextId, req, ticks, instances>>

\* service.findAll(query)
FindAllCall ==
  /\ probe = NoProbe
  /\ \E query \in Queries : \E out \in findAll(store, query) :
       probe' = [NoProbe EXCEPT !.op = "findAll", !.query = query,
                   !.data = out.data, !.meta = out.meta, !.statusCode = 200]
  /\ UNCHANGED <<store, cache, now, nextId, req, ticks, instances>>

\* service.count()
CountCall ==
  /\ probe = NoProbe
  /\ probe' = [NoProbe EXCEPT !.op = "count", !.total = count(store),
                 !.statusCode = 200]
  /\ UNCHANGED <<store, cache, now, nextId, req, ticks, instances>>

\* The caller of a read takes the result before the service's next step.
ReadReturn ==
  /\ probe # NoProbe
  /\ probe' = NoProbe
  /\ UNCHANGED <<store, cache, now, nextId, req, ticks, instances>>

\* A step of the service between two reads.
ServiceStep == probe = NoProbe /\ NextSeq

NextReads ==
  \/ ServiceStep
  \/ ReadReturn
  \/ FindOneCall
  \/ FindAllCall
  \/ CountCall

SpecReads == Init /\ [][NextReads]_vars

\* ------------------------------------------------------------ GET routes
\* GET /api/v1/webhooks/:id and GET /api/v1/webhooks through the global
\* ApiKeyGuard, the route's pipe, the handler and the exception filter; the
\* interceptor passes a GET on to the handler. The probe holds the request
\* and the response the client receives.

\* A pipe that lets nothing through.
ParseUUIDPipeNone(id) ==
  [ok |-> FALSE, exception |-> HttpException(400, "Validation failed (uuid is expected)")]

\* A path segment that is no UUID stands as NoId; the database issues UUIDs.
ParseUUIDPipe(id) ==
  IF id = NoId THEN [ok |-> FALSE,
                     exception |-> HttpException(400, "Validation failed (uuid is expected)")]
  ELSE [ok |-> TRUE, exception |-> HttpException(0, "")]

\* WebhooksController.findOne behind the guard and the pipe: the status,
\* the message of an error and the body of a 200.
getOne(rows, apiKey, id) ==
  LET gate == ApiKeyGuard_canActivate(FALSE, apiKey)
      piped == ParseUUIDPipe(id)
      out == findOne(rows, id)
      Failed(e) == [statusCode |-> catch(e).statusCode, message |-> catch(e).message,
                    data |-> <<>>]
  IN IF ~gate.admit THEN Failed(gate.exception)
     ELSE IF ~piped.ok THEN Failed(piped.exception)
     ELSE IF out.exception # {} THEN Failed(CHOOSE e \in out.exception : TRUE)
     ELSE [statusCode |-> 200, message |-> "",
           data |-> <<fromEntity(CHOOSE w \in out.webhook : TRUE)>>]

\* WebhooksController.findAll behind the guard, for a query that the pipe
\* accepts: the responses the client can receive.
getAll(rows, apiKey, query) ==
  LET gate == ApiKeyGuard_canActivate(FALSE, apiKey)
  IN IF ~gate.admit
       THEN {[statusCode |-> catch(gate.exception).statusCode,
              message |-> catch(gate.exception).message,
              data |-> <<>>, meta |-> NoMeta]}
       ELSE {[statusCode |-> 200, message |-> "", data |-> out.data, meta |-> out.meta] :
               out \in findAll(rows, query)}

\* GET /api/v1/webhooks/:id
GetOneCall ==
  /\ probe = NoProbe
  /\ \E apiKey \in ApiKeyHeaders : \E id \in 0..nextId :
       LET out == getOne(store, apiKey, id)
       IN probe' = [NoProbe EXCEPT !.op = "GET /webhooks/:id", !.method = "GET",
                      !.apiKey = apiKey, !.id = id, !.statusCode = out.statusCode,
                      !.message = out.message, !.data = out.data]
  /\ UNCHANGED <<store, cache, now, nextId, req, ticks, instances>>

\* The query strings of the GET requests.
GetQueries == {q \in Queries : q.event = Undefined /\ q.page = NoNumber}

\* GET /api/v1/webhooks
GetAllCall ==
  /\ probe = NoProbe
  /\ \E apiKey \in ApiKeyHeaders : \E query \in GetQueries :
       \E out \in getAll(store, apiKey, query) :
         probe' = [NoProbe EXCEPT !.op = "GET /webhooks", !.method = "GET",
                     !.apiKey = apiKey, !.query = query, !.statusCode = out.statusCode,
                     !.message = out.message, !.data = out.data, !.meta = out.meta]
  /\ UNCHANGED <<store, cache, now, nextId, req, ticks, instances>>

NextGets ==
  \/ ServiceStep
  \/ ReadReturn
  \/ GetOneCall
  \/ GetAllCall

SpecGets == Init /\ [][NextGets]_vars

\* ---------------------------------------------------------------- pages
\* findAll and the GET routes over the tables that create can have written:
\* up to MaxRows records, of either source, received at one of two times,
\* without key or with one, and a table of ManyRows records received a
\* millisecond after one another.
MaxRows == 3
ManyRows == 25
ManyLimit == 10

RowChoices == [body : {BodyStripe, BodyGithub}, receivedAt : {0, TTL}, keyed : BOOLEAN]
NoRow == [body |-> BodyNoSource, receivedAt |-> 0, keyed |-> FALSE]
KeyOfRow(id) == IF id = 1 THEN "k1" ELSE IF id = 2 THEN "k2" ELSE Undefined

\* The record create writes for a choice: the key and the letter case of
\* the signature are what the sender chose.
RowOf(id, c) ==
  LET keyed == c.keyed /\ KeyOfRow(id) # Undefined
  IN Webhook(id, c.body,
             IF keyed THEN toUpperCase(SignatureOf[c.body]) ELSE SignatureOf[c.body],
             IF keyed THEN KeyOfRow(id) ELSE Undefined, c.receivedAt)

Stores ==
  {{RowOf(id, f[id]) : id \in {i \in 1..MaxRows : f[i] # NoRow}} :
     f \in [1..MaxRows -> RowChoices \cup {NoRow}]}

StoreOfMany ==
  {Webhook(id, IF id % 2 = 0 THEN BodyStripe ELSE BodyGithub,
           SignatureOf[IF id % 2 = 0 THEN BodyStripe ELSE BodyGithub], Undefined,
           id) : id \in 1..ManyRows}

PageQueries ==
  [page : {NoNumber, 1, 2, 3}, limit : {NoNumber, 1, 2, ManyLimit},
   source : SourceFilters, event : EventFilters]

\* The greatest id of a table.
LastId(rows) ==
  IF rows = {} THEN NoId
  ELSE CHOOSE n \in {w.id : w \in rows} : \A w \in rows : w.id <= n

InitPages ==
  /\ store \in Stores \cup {StoreOfMany}
  /\ cache = [i \in Instances |-> EmptyCache]
  /\ now = 0
  /\ nextId = LastId(store) + 1
  /\ req = [r \in Reqs |-> IdleRequest]
  /\ ticks = 0
  /\ instances = {"A"}
  /\ probe = NoProbe

\* service.findAll(query) on the table
FindAllPage ==
  /\ probe = NoProbe
  /\ \E query \in PageQueries : \E out \in findAll(store, query) :
       probe' = [NoProbe EXCEPT !.op = "findAll", !.query = query,
                   !.data = out.data, !.meta = out.meta, !.statusCode = 200]
  /\ UNCHANGED <<store, cache, now, nextId, req, ticks, instances>>

NextPages ==
  \/ FindAllPage
  \/ GetOneCall
  \/ GetAllCall
  \/ ReadReturn

SpecPages == InitPages /\ [][NextPages]_vars

\* --------------------------------------------------------------- errors
\* A request on which something is thrown, from RequestIdMiddleware to the
\* response that HttpExceptionFilter writes. The probe holds the request's
\* X-Request-ID header and url and what is thrown, then the request id, the
\* X-Request-ID response header and the response body.

\* A middleware that always generates the id.
useGenerated(header, generated) == generated

\* RequestIdMiddleware.use: the request id for a header and a fresh UUID.
use(header, generated) == IF Truthy(header) THEN header ELSE generated

\* Faults that are no HttpException: errors of the driver and the runtime,
\* and a thrown value that is no Error.
Fault(kind, message) == [kind |-> kind, status |-> 0, message |-> message, list |-> <<>>]
Faults ==
  {QueryFailedError, Fault("Error", "connect ECONNREFUSED 127.0.0.1:5432"),
   Fault("Error", "Cannot read properties of undefined (reading 'id')"),
   Fault("thrown", "a string")}

\* What the guards, the pipes and the service throw.
Raised ==
  {ApiKeyVerdict[a].exception : a \in {h \in ApiKeyHeaders : ~ApiKeyVerdict[h].admit}}
  \cup UNION {{SignatureVerdict[b][h].exception :
                 h \in {g \in SignatureHeaders(b) : ~SignatureVerdict[b][g].admit}} :
              b \in Bodies}
  \cup {BadRequestException(ValidationErrors[b]) :
          b \in {c \in Bodies : ValidationErrors[c] # <<>>}}
  \cup {ParseUUIDPipe(NoId).exception, NotFoundException(notFound(1))}
  \cup Faults

RequestIdHeaders == {Undefined, "", "req-7", "unknown"}
GeneratedIds == {"uuid-1", "uuid-2"}
Urls == {"/api/v1/webhooks", "/api/v1/webhooks/1"}

\* The body HttpExceptionFilter.catch sends for an exception thrown on a
\* request with this request id and url, at time t.
errorResponse(exception, requestId, url, t) ==
  LET r == catch(exception)
      base == [statusCode |-> r.statusCode, message |-> r.message,
               requestId |-> IF Truthy(requestId) THEN requestId ELSE "unknown",
               timestamp |-> t, path |-> url]
  IN IF r.errors # <<>> THEN base @@ [errors |-> r.errors] ELSE base

InitErrors ==
  /\ store = {}
  /\ cache = [i \in Instances |-> EmptyCache]
  /\ now = 0
  /\ nextId = 1
  /\ req = [r \in Reqs |-> IdleRequest]
  /\ ticks = 0
  /\ instances = {"A"}
  /\ probe \in {[NoProbe EXCEPT !.op = "request", !.pc = "call", !.xRequestId = h,
                                !.url = u, !.exception = e] :
                  h \in RequestIdHeaders, u \in Urls, e \in Raised}

\* RequestIdMiddleware.use
MiddlewareUse ==
  /\ probe.op = "request" /\ probe.pc = "call"
  /\ \E generated \in GeneratedIds :
       probe' = [probe EXCEPT !.pc = "handling",
                              !.requestId = use(probe.xRequestId, generated),
                              !.responseHeader = use(probe.xRequestId, generated)]
  /\ UNCHANGED <<store, cache, now, nextId, req, ticks, instances>>

\* The exception is thrown and HttpExceptionFilter.catch answers.
FilterCatch ==
  /\ probe.op = "request" /\ probe.pc = "handling"
  /\ LET body == errorResponse(probe.exception, probe.requestId, probe.url, now)
     IN probe' = [probe EXCEPT !.pc = "returned", !.statusCode = body.statusCode,
                               !.message = body.message, !.body = body]
  /\ UNCHANGED <<store, cache, now, nextId, req, ticks, instances>>

NextErrors ==
  \/ MiddlewareUse
  \/ FilterCatch

SpecErrors == InitErrors /\ [][NextErrors]_vars

\* ------------------------------------------------------------ properties
RowsWithKey(k) == {w \in store : w.idempotencyKey = k}
\* Both guards admitted the request (its third stage is the interceptor).
GuardsPassed(q) == Len(q.trace) >= 3
Answered201(q) == q.pc = "done" /\ q.resp.statusCode = 201
\* The request constraints of POST /webhooks on a body.
BodyOk(b) ==
  /\ b.source # Undefined /\ StrLen(b.source) \in 1..100
  /\ b.event # Undefined /\ StrLen(b.event) \in 1..100
  /\ b.payload # Undefined
\* The signature header is the HMAC of the body that was sent.
SignatureOk(s, b) == s = SignatureOf[b]
\* Instance i holds an unexpired entry for key k.
Unexpired(i, k) ==
  k \in Keys /\ cache[i][k] # NoEntry /\ now - cache[i][k].timestamp <= TTL

\* C1: any two persisted records with the same non-absent idempotencyKey are
\* the same record, under every interleaving of concurrent creates.
C1_OneRecordPerKey ==
  \A w1 \in store : \A w2 \in store :
    (w1.idempotencyKey # Undefined /\ w1.idempotencyKey = w2.idempotencyKey)
      => w1.id = w2.id

\* Two requests with the same key both passed the lookup before either wrote:
\* one insert succeeded and the other was rejected.
C1_Witness ==
  \E r1 \in Reqs : \E r2 \in Reqs :
    /\ r1 # r2
    /\ Truthy(req[r1].idempotencyKey)
    /\ req[r1].idempotencyKey = req[r2].idempotencyKey
    /\ "none" \in Range(req[r1].trace) /\ req[r1].isNew
    /\ "none" \in Range(req[r2].trace)
    /\ "save.rejected" \in Range(req[r2].trace)
    /\ Cardinality(RowsWithKey(req[r1].idempotencyKey)) = 1

\* C2 (as claimed): a create whose insert the unique constraint rejects does
\* not fail; it re-reads by key and returns the winner's record, isNew false.
C2_RejectedInsertReturnsWinner ==
  \A r \in Reqs :
    (req[r].pc = "done" /\ "save.rejected" \in Range(req[r].trace))
      => /\ req[r].resp.statusCode = 201
         /\ ~req[r].isNew
         /\ \E w \in RowsWithKey(req[r].idempotencyKey) : w.id = req[r].webhook

\* C3 (as claimed): every request that passes the credential, signature and
\* validation checks is answered 201 with the id of the one record of its
\* key, never with a 409 or a 5xx.
C3_NoConflictSurfaces ==
  \A r \in Reqs :
    (req[r].pc = "done" /\ GuardsPassed(req[r]) /\ req[r].bodyValid)
      => /\ req[r].resp.statusCode = 201
         /\ Truthy(req[r].idempotencyKey)
              => \A w \in RowsWithKey(req[r].idempotencyKey) : w.id = req[r].resp.id

\* C4: for every key at most one create returns isNew = true and at most one
\* write succeeds; once a call with the key has returned, exactly one record
\* with the key exists.
C4_AtMostOneNew ==
  \A k \in Keys :
    /\ \A r1 \in Reqs : \A r2 \in Reqs :
         (/\ req[r1].idempotencyKey = k /\ req[r1].isNew
          /\ req[r2].idempotencyKey = k /\ req[r2].isNew) => r1 = r2
    /\ \A w1 \in RowsWithKey(k) : \A w2 \in RowsWithKey(k) : w1 = w2
    /\ (\E r \in Reqs : /\ req[r].idempotencyKey = k
                        /\ req[r].pc = "respond" \/ Answered201(req[r]))
         => RowsWithKey(k) # {}

\* One call created the record of a key and another call with that key
\* returned the existing one.
C4_Witness ==
  \E r1 \in Reqs : \E r2 \in Reqs :
    /\ Truthy(req[r1].idempotencyKey)
    /\ req[r1].idempotencyKey = req[r2].idempotencyKey
    /\ Answered201(req[r1]) /\ req[r1].isNew
    /\ Answered201(req[r2]) /\ ~req[r2].isNew /\ "found" \in Range(req[r2].trace)

\* C5: a create whose key already has a persisted record returns that record
\* with isNew = false, whatever its body is, calls no save and leaves the
\* table as it was.
C5_FindStep(r) ==
  (/\ req[r].pc = "find"
   /\ RowsWithKey(req[r].idempotencyKey) # {}
   /\ req'[r].pc \notin {"find", "aborted"})
    => /\ req'[r].pc = "respond"
       /\ ~req'[r].isNew
       /\ \E w \in RowsWithKey(req[r].idempotencyKey) : req'[r].webhook = w.id
       /\ store' = store
C5_ReturnStep(r) ==
  (req[r].pc = "respond" /\ ~req[r].isNew /\ req'[r].pc = "done")
    => /\ store' = store
       /\ req'[r].resp.statusCode = 201
       /\ req'[r].resp.id = req[r].webhook
       /\ "save" \notin Range(req'[r].trace)
C5_ExistingKeyNoWrite ==
  [][\A r \in Reqs : C5_FindStep(r) /\ C5_ReturnStep(r)]_vars

\* A create returned the existing record of its key to a request whose body
\* differs from the one that was stored.
C5_Witness ==
  \E r \in Reqs :
    /\ req[r].pc = "respond" /\ ~req[r].isNew
    /\ \E w \in store : w.id = req[r].webhook /\ w.source # req[r].body.source

\* C6 (as claimed): non-overlapping requests with valid API key, valid
\* signature and the same idempotency key are all answered 201 with the id
\* of the first response.
C6_SameIdForSameKey ==
  \A r \in Reqs :
    (req[r].pc = "done" /\ GuardsPassed(req[r]) /\ Truthy(req[r].idempotencyKey))
      => /\ req[r].resp.statusCode = 201
         /\ \A q \in Reqs :
              (/\ q < r /\ req[q].pc = "done" /\ GuardsPassed(req[q])
               /\ req[q].idempotencyKey = req[r].idempotencyKey)
                => req[q].resp.id = req[r].resp.id

\* C6 (amended): the same, for requests whose body also passes validation.
C6_SameIdForSameKeyValidBody ==
  \A r \in Reqs :
    (/\ req[r].pc = "done" /\ GuardsPassed(req[r]) /\ req[r].bodyValid
     /\ Truthy(req[r].idempotencyKey))
      => /\ req[r].resp.statusCode = 201
         /\ \A q \in Reqs :
              (/\ q < r /\ req[q].pc = "done" /\ GuardsPassed(req[q])
               /\ req[q].bodyValid
               /\ req[q].idempotencyKey = req[r].idempotencyKey)
                => req[q].resp.id = req[r].resp.id

\* A second valid delivery of a key was answered after the map had lost the
\* first one's entry: create found the record.
C6_Witness ==
  \E q \in Reqs : \E r \in Reqs :
    /\ q < r /\ Truthy(req[q].idempotencyKey)
    /\ req[q].idempotencyKey = req[r].idempotencyKey
    /\ Answered201(req[q]) /\ req[q].isNew /\ req[q].bodyValid
    /\ Answered201(req[r]) /\ req[r].bodyValid /\ "found" \in Range(req[r].trace)
    /\ req[q].resp.id = req[r].resp.id

\* Every value the clock can show and every map an instance can hold.
ClockValues == {n * TTL : n \in 0..MaxTicks}
Snapshots == {createResponse(id, isNew) : id \in 1..MaxReqs, isNew \in BOOLEAN}
CacheEntries == {NoEntry} \cup {Entry(d, t) : d \in Snapshots, t \in ClockValues}
Caches == [Keys -> CacheEntries]
CachesCovered == now \in ClockValues /\ \A i \in instances : cache[i] \in Caches
\* Map c holds an unexpired entry for key k at time t.
UnexpiredIn(c, t, k) == k \in Keys /\ c[k] # NoEntry /\ t - c[k].timestamp <= TTL


\* For every map, clock value, key with an unexpired entry and body: an
\* admitted POST is answered with the entry's snapshot at the interceptor.
C7_ReplayTable ==
  \A c \in Caches : \A t \in ClockValues : \A k \in Keys : \A b \in Bodies :
    UnexpiredIn(c, t, k) =>
      LET out == Admission(c, t, validApiKey, SignatureOf[b], k, b)
      IN /\ out.pc = "done"
         /\ out.resp = Response(201, c[k].data.id, c[k].data.message, <<>>)
         /\ out.trace = <<"ApiKeyGuard", "SignatureGuard", "Idempotency.hit">>
         /\ ~out.tap
         /\ out.cache[k] = c[k]

\* C7: while an instance's map holds an unexpired entry for key K, an
\* admitted POST carrying K is answered with exactly the stored snapshot
\* (id and message), and neither the pipe, the handler, create nor the table
\* is reached for it.
C7_CachedReplay ==
  /\ CachesCovered
  /\ C7_ReplayTable
  /\ \A r \in Reqs :
       "Idempotency.hit" \in Range(req[r].trace)
         => /\ req[r].pc = "done"
            /\ req[r].trace = <<"ApiKeyGuard", "SignatureGuard", "Idempotency.hit">>
            /\ req[r].webhook = NoId /\ ~req[r].isNew
            /\ \E w \in store : /\ w.id = req[r].resp.id
                                /\ w.idempotencyKey = req[r].idempotencyKey

\* A request was answered from the map while the entry, aged exactly the
\* retention window, is still unexpired.
C7_Witness ==
  \E r \in Reqs : \E i \in instances :
    /\ "Idempotency.hit" \in Range(req[r].trace)
    /\ Unexpired(i, req[r].idempotencyKey)
    /\ now - cache[i][req[r].idempotencyKey].timestamp = TTL
    /\ req[r].resp.id = cache[i][req[r].idempotencyKey].data.id

\* C8: with restarts that empty an instance's map, expiring entries and
\* several instances with separate maps over one table, all 201 responses to
\* requests carrying the same key carry the same id, and the table holds at
\* most one record of the key.
C8_DedupWithoutCache ==
  \A k \in Keys :
    /\ \A r1 \in Reqs : \A r2 \in Reqs :
         (/\ Answered201(req[r1]) /\ Answered201(req[r2])
          /\ req[r1].idempotencyKey = k /\ req[r2].idempotencyKey = k)
           => req[r1].resp.id = req[r2].resp.id
    /\ \A w1 \in store : \A w2 \in store :
         (w1.idempotencyKey = k /\ w2.idempotencyKey = k) => w1.id = w2.id

\* Two 201 responses for one key, the second produced while no instance's
\* map held a usable entry for the request: create found the record.
C8_Witness ==
  \E r1 \in Reqs : \E r2 \in Reqs :
    /\ r1 # r2 /\ Truthy(req[r1].idempotencyKey)
    /\ req[r1].idempotencyKey = req[r2].idempotencyKey
    /\ Answered201(req[r1]) /\ req[r1].isNew
    /\ Answered201(req[r2]) /\ "Idempotency.miss" \in Range(req[r2].trace)
    /\ "found" \in Range(req[r2].trace)
    /\ Cardinality(instances) > 1

\* The stages of a trace appear in the order credential, signature,
\* idempotency lookup, create.
StageOrdered(trace) ==
  /\ Len(trace) >= 1 => trace[1] = "ApiKeyGuard"
  /\ Len(trace) >= 2 => trace[2] = "SignatureGuard"
  /\ Len(trace) >= 3 =>
       trace[3] \in {"Idempotency.hit", "Idempotency.miss", "Idempotency.skip"}
  /\ \A n \in DOMAIN trace :
       trace[n] \in {"create", "findOne", "found", "none", "save", "save.rejected",
                     "respond"} => n > 3

\* For every map, clock value and POST: the stages are in order, and a POST
\* that a guard denies stops at that guard with the map untouched.
C9_DeniedStopsAtGuard ==
  \A c \in Caches : \A t \in ClockValues : \A p \in Posts :
    LET out == Admission(c, t, p.apiKey, p.signature, p.key, p.body)
    IN /\ StageOrdered(out.trace)
       /\ p.apiKey # validApiKey =>
            /\ out.trace = <<"ApiKeyGuard">>
            /\ out.pc = "done" /\ out.resp.statusCode = 401
            /\ out.cache = c /\ ~out.tap
       /\ (p.apiKey = validApiKey /\ ~SignatureOk(p.signature, p.body)) =>
            /\ out.trace = <<"ApiKeyGuard", "SignatureGuard">>
            /\ out.pc = "done" /\ out.resp.statusCode = 403
            /\ out.cache = c /\ ~out.tap

C10_GuardRows(out, p) ==
  /\ p.apiKey # validApiKey => (out.pc = "done" /\ out.resp.statusCode = 401)
  /\ (p.apiKey = validApiKey /\ ~SignatureOk(p.signature, p.body)) =>
       (out.pc = "done" /\ out.resp.statusCode = 403)
ValidationFailure(out) ==
  /\ out.pc = "done" /\ out.resp.statusCode = 400
  /\ out.resp.message = "Validation failed" /\ out.resp.errors # <<>>

\* C10 (as claimed): the first failing check among credential, signature and
\* body validation decides the response: 401, else 403, else 400 with
\* 'Validation failed' and field messages; only a request passing all three
\* is answered 201.
C10_FirstFailingCheck ==
  /\ \A i \in instances : \A p \in Posts :
       LET out == Admission(cache[i], now, p.apiKey, p.signature, p.key, p.body)
       IN /\ C10_GuardRows(out, p)
          /\ (/\ p.apiKey = validApiKey /\ SignatureOk(p.signature, p.body)
              /\ ~BodyOk(p.body)) => ValidationFailure(out)
          /\ out.resp.statusCode = 201
               => /\ p.apiKey = validApiKey /\ SignatureOk(p.signature, p.body)
                  /\ BodyOk(p.body)
  /\ \A r \in Reqs :
       req[r].resp.statusCode = 201 => (GuardsPassed(req[r]) /\ req[r].bodyValid)

\* For every map, clock value and POST: 401, else 403, else the cached 201
\* if the key has an unexpired entry, else 400 for an invalid body; beyond
\* the guards only a valid body goes on to create.
C10_ResponseTable ==
  \A c \in Caches : \A t \in ClockValues : \A p \in Posts :
    LET out == Admission(c, t, p.apiKey, p.signature, p.key, p.body)
        admitted == p.apiKey = validApiKey /\ SignatureOk(p.signature, p.body)
    IN /\ C10_GuardRows(out, p)
       /\ (admitted /\ UnexpiredIn(c, t, p.key))
            => (out.pc = "done" /\ out.resp.statusCode = 201)
       /\ (admitted /\ ~UnexpiredIn(c, t, p.key) /\ ~BodyOk(p.body))
            => ValidationFailure(out)
       /\ out.resp.statusCode = 201 => (admitted /\ UnexpiredIn(c, t, p.key))
       /\ out.pc \in InFlight => (admitted /\ BodyOk(p.body))

\* C10 (amended): the same order with the idempotency lookup between the
\* signature check and validation: a POST with valid key and signature whose
\* idempotency key has an unexpired entry is answered 201 from the map
\* whatever its body is; otherwise an invalid body yields the 400; only a
\* request that passed all three checks or was answered from the map gets 201.
C10_FirstFailingCheckOrReplay ==
  /\ CachesCovered
  /\ C10_ResponseTable
  /\ \A r \in Reqs :
       /\ req[r].resp.statusCode = 201
            => /\ GuardsPassed(req[r])
               /\ req[r].bodyValid \/ "Idempotency.hit" \in Range(req[r].trace)
       /\ req[r].pc \in InFlight => (GuardsPassed(req[r]) /\ req[r].bodyValid)
       /\ req[r].resp.statusCode = 400
            => /\ req[r].resp.message = "Validation failed"
               /\ req[r].resp.errors # <<>> /\ ~req[r].bodyValid
               /\ "create" \notin Range(req[r].trace)

\* One request was answered 201 and another, with valid key and signature
\* and an invalid body, was refused with the validation failure.
C10_Witness ==
  \E r1 \in Reqs : \E r2 \in Reqs :
    /\ Answered201(req[r1])
    /\ req[r2].pc = "done" /\ req[r2].resp.statusCode = 400
    /\ req[r2].resp.message = "Validation failed" /\ req[r2].resp.errors # <<>>
    /\ "ValidationPipe" \in Range(req[r2].trace)

\* The direct call of op has returned.
Returned(op) == probe.op = op /\ probe.pc = "returned"
\* A mutating request with a signature header on a route that does not skip
\* the signature check.
SignatureChecked ==
  /\ Returned("SignatureGuard") /\ ~probe.skipSignature
  /\ probe.method \in {"POST", "PUT", "PATCH"} /\ probe.signature # NoSignature

\* C11 (as claimed): such a request, whose signature header is the HMAC of
\* some text, is admitted by SignatureGuard if and only if that text is the
\* body exactly as it was sent, and is otherwise denied with 403 'Invalid
\* webhook signature'.
C11_AdmitIffHmacOfSentBody ==
  (SignatureChecked /\ probe.signature \in {generate(Q) : Q \in Payloads})
    => /\ probe.value <=> probe.signature = generate(probe.payload)
       /\ ~probe.value => /\ probe.statusCode = 403
                          /\ probe.message = "Invalid webhook signature"

\* C12: SignatureGuard admits a route that skips the check without calling
\* verify, else admits a method other than POST, PUT, PATCH without calling
\* verify, else denies an absent or empty signature with 403 'Webhook
\* signature is required', else calls verify once and decides as it says.
C12_SignaturePolicy ==
  Returned("SignatureGuard") =>
    IF probe.skipSignature \/ probe.method \notin {"POST", "PUT", "PATCH"}
      THEN probe.value /\ probe.verifyCalls = <<>>
    ELSE IF probe.signature = NoSignature
      THEN /\ ~probe.value /\ probe.verifyCalls = <<>>
           /\ probe.statusCode = 403
           /\ probe.message = "Webhook signature is required"
    ELSE /\ Len(probe.verifyCalls) = 1
         /\ probe.verifyCalls[1].signature = probe.signature
         /\ probe.value = verify(probe.verifyCalls[1].payload, probe.signature)
         /\ ~probe.value => /\ probe.statusCode = 403
                            /\ probe.message = "Invalid webhook signature"

\* A GET that carries no signature was admitted on a route that does not
\* skip the check.
C12_Witness ==
  /\ Returned("SignatureGuard") /\ ~probe.skipSignature
  /\ probe.method = "GET" /\ probe.signature = NoSignature
  /\ probe.value /\ probe.verifyCalls = <<>>

\* C13: ApiKeyGuard admits a public route whatever the key is, else denies
\* an absent or empty key with 'API key is required', else denies a key
\* that is not exactly the configured one with 'Invalid API key', else
\* admits.
C13_CredentialPolicy ==
  Returned("ApiKeyGuard") =>
    IF probe.isPublic THEN probe.value
    ELSE IF probe.apiKey \in {Undefined, ""}
      THEN /\ ~probe.value /\ probe.statusCode = 401
           /\ probe.message = "API key is required"
    ELSE IF probe.apiKey # "default-api-key"
      THEN /\ ~probe.value /\ probe.statusCode = 401
           /\ probe.message = "Invalid API key"
    ELSE probe.value

\* An empty key was denied on a route that is not public.
C13_Witness ==
  /\ Returned("ApiKeyGuard") /\ ~probe.isPublic /\ probe.apiKey = ""
  /\ ~probe.value /\ probe.message = "API key is required"

\* C14 (as claimed): verify accepts generate(P) for P, rejects generate(P)
\* with any one character replaced by a different one, and rejects the
\* signature of a different payload.
C14_SingleCharacterChange ==
  Returned("verify") =>
    /\ probe.signature = generate(probe.payload) => probe.value
    /\ probe.signature \in SingleReplacements(generate(probe.payload))
         => ~probe.value
    /\ probe.signature \in {generate(Q) : Q \in Payloads \ {probe.payload}}
         => ~probe.value

\* A signature that is not well-formed hexadecimal text: a character that
\* is no hexadecimal digit, or an odd length.
MalformedHex(sig) ==
  \/ Len(sig) % 2 = 1
  \/ \E n \in DOMAIN sig : sig[n] \notin Range(HexDigits) \cup Range(OtherLetter)

\* C15 (as claimed): verify returns false for a signature that is absent or
\* empty, that is malformed hexadecimal text, or that decodes to a length
\* other than the digest's.
C15_MalformedIsFalse ==
  (/\ Returned("verify")
   /\ \/ probe.signature = NoSignature
      \/ MalformedHex(probe.signature)
      \/ Len(probe.signature) # 2 * DigestBytes) => ~probe.value

\* C16: verifyWithSecret(P, s, K) is verify(P, s) when K is the configured
\* secret, is true for the HMAC of P under K and false for the HMAC of P
\* under another secret, and is false when K or s is empty or absent.
C16_VerifyWithSecret ==
  Returned("verifyWithSecret") =>
    /\ probe.value \in BOOLEAN
    /\ (probe.signature = NoSignature \/ probe.secret \in {"", Undefined})
         => ~probe.value
    /\ probe.secret = "default-webhook-secret"
         => probe.value = verify(probe.payload, probe.signature)
    /\ probe.secret \notin {"", Undefined} =>
         \A K \in Secrets \ {Undefined} :
           probe.signature = toHex(createHmac(K, probe.payload))
             => (probe.value <=> K = probe.secret)

\* A signature made with a secret other than the configured one was verified
\* against that secret.
C16_Witness ==
  /\ Returned("verifyWithSecret") /\ probe.secret = "my-custom-secret"
  /\ probe.signature = toHex(createHmac("my-custom-secret", probe.payload))
  /\ probe.value

\* A request that both guards admitted and that carries no idempotency key.
Keyless(q) == GuardsPassed(q) /\ ~Truthy(q.idempotencyKey)

\* For every map, clock value and body: an admitted POST whose key header is
\* absent or empty skips the map and, if valid, enters create at the insert.
C17_KeylessSkipsLookup ==
  \A c \in Caches : \A t \in ClockValues : \A k \in {Undefined, ""} : \A b \in Bodies :
    LET out == Admission(c, t, validApiKey, SignatureOf[b], k, b)
    IN /\ out.trace[3] = "Idempotency.skip" /\ out.cache = c /\ ~out.tap
       /\ "findOne" \notin Range(out.trace)
       /\ BodyOk(b) => out.pc = "save"

\* C17: an admitted valid POST without idempotency key makes no lookup by
\* key, persists a new record with a fresh id and a null key and returns
\* isNew = true; n such requests leave n records with different ids.
C17_KeylessAlwaysNew ==
  /\ CachesCovered
  /\ C17_KeylessSkipsLookup
  /\ \A r \in Reqs :
       Keyless(req[r]) =>
         /\ Range(req[r].trace) \cap {"findOne", "found", "none", "save.rejected",
                                      "Idempotency.hit", "Idempotency.miss"} = {}
         /\ (req[r].bodyValid /\ req[r].pc \in {"respond", "done"}) =>
              /\ req[r].isNew
              /\ \E w \in store : w.id = req[r].webhook /\ w.idempotencyKey = Undefined
              /\ req[r].pc = "done" =>
                   req[r].resp = Response(201, req[r].webhook, "Webhook received", <<>>)
  /\ \A r1 \in Reqs : \A r2 \in Reqs :
       (/\ r1 # r2 /\ Keyless(req[r1]) /\ Keyless(req[r2])
        /\ req[r1].isNew /\ req[r2].isNew) => req[r1].webhook # req[r2].webhook

\* Two POSTs without key and with the same body were both answered: two
\* records that differ in nothing but the id (and the time).
C17_Witness ==
  \E r1 \in Reqs : \E r2 \in Reqs :
    /\ r1 # r2 /\ Keyless(req[r1]) /\ Keyless(req[r2])
    /\ Answered201(req[r1]) /\ Answered201(req[r2])
    /\ \E w1 \in store : \E w2 \in store :
         /\ w1.id = req[r1].webhook /\ w2.id = req[r2].webhook /\ w1.id # w2.id
         /\ w1.source = w2.source /\ w1.event = w2.event /\ w1.payload = w2.payload

\* The insert of request r succeeds: one record is added, with an id no
\* record has, the body's source, event and payload, the signature and key
\* of the request (null when it carried none) and status pending, and
\* create returns it with isNew = true.
C18_Insert(r) ==
  (req[r].pc = "save" /\ req'[r].pc = "respond") =>
    \E w \in store' :
      /\ store' = store \cup {w}
      /\ w.id \notin {x.id : x \in store}
      /\ w.source = req[r].body.source /\ w.event = req[r].body.event
      /\ w.payload = req[r].body.payload
      /\ w.signature = req[r].signature
      /\ w.idempotencyKey = IF req[r].idempotencyKey \in {Undefined, ""}
                              THEN Undefined ELSE req[r].idempotencyKey
      /\ w.status = "pending"
      /\ req'[r].isNew /\ req'[r].webhook = w.id

\* C18: a record persisted by create has a fresh id, the request's source,
\* event and payload, its signature and idempotency key or null for each
\* that was not supplied, and status 'pending'; create returns it with
\* isNew = true.
C18_PersistedRecord ==
  [][\A r \in Reqs : C18_Insert(r)]_vars

\* create has just persisted a record with a key and a signature for one
\* request, after a record without key.
C18_Witness ==
  \E r \in Reqs : \E w \in store : \E x \in store :
    /\ req[r].pc = "respond" /\ req[r].isNew /\ w.id = req[r].webhook
    /\ w.idempotencyKey \in Keys /\ w.signature = req[r].signature
    /\ w.signature # NoSignature /\ w.source = req[r].body.source
    /\ x.idempotencyKey = Undefined /\ x.id # w.id

\* For every map, clock value, key and body: an admitted POST with a key
\* leaves no entry older than the window in the map, keeps the others, is
\* answered from the map only by an entry within the window, and goes on to
\* the pipe and the handler when its key's entry is older.
C20_SweepBeforeLookup ==
  \A c \in Caches : \A t \in ClockValues : \A k \in Keys : \A b \in Bodies :
    LET out == Admission(c, t, validApiKey, SignatureOf[b], k, b)
    IN /\ \A j \in Keys :
            /\ out.cache[j] # NoEntry => t - out.cache[j].timestamp <= TTL
            /\ (c[j] # NoEntry /\ t - c[j].timestamp <= TTL) => out.cache[j] = c[j]
       /\ (c[k] # NoEntry /\ t - c[k].timestamp > TTL) =>
            /\ out.trace[3] = "Idempotency.miss"
            /\ "ValidationPipe" \in Range(out.trace)
            /\ BodyOk(b) => (out.pc = "find" /\ out.tap)
       /\ (c[k] # NoEntry /\ t - c[k].timestamp = TTL) =>
            /\ out.trace[3] = "Idempotency.hit"
            /\ out.resp.id = c[k].data.id
       /\ out.trace[3] = "Idempotency.hit" =>
            (c[k] # NoEntry /\ t - c[k].timestamp <= TTL)

\* C20: a lookup never returns an entry older than the 24-hour window: every
\* keyed mutating request first removes the entries with now - timestamp >
\* 24 h, so a request whose key's entry has expired goes to the handler; an
\* entry aged exactly 24 h is still served.
C20_NoExpiredReplay ==
  /\ TTL = 86400000
  /\ CachesCovered
  /\ C20_SweepBeforeLookup

\* A request missed the map although its key's record was created more than
\* a window ago, went to the handler and found the record.
C20_Witness ==
  \E r \in Reqs : \E w \in store :
    /\ Truthy(req[r].idempotencyKey) /\ w.idempotencyKey = req[r].idempotencyKey
    /\ req[r].trace[3] = "Idempotency.miss" /\ "found" \in Range(req[r].trace)
    /\ now - w.receivedAt > TTL

\* The last step was a read of the store.
ReadStep == probe' # probe /\ probe'.op \in {"findOne", "findAll", "count"}

\* C19: once a record is persisted no operation changes a field of it or
\* removes it: every record of the store is in the store, as it was written,
\* after every step (a create with its key and another body, a replay from
\* the map, findOne, findAll, count), and its status stays 'pending'.
C19_RecordsNeverChange ==
  [][/\ \A w \in store : w \in store' /\ w.status = "pending"
     /\ \A w \in store' \ store : w.id \notin {x.id : x \in store}
     /\ ReadStep => store' = store]_vars

\* A record with a key is in the store, a POST with that key and another
\* body was answered with that record's id, and a read has returned it as
\* it was written.
C19_Witness ==
  \E w \in store : \E r \in Reqs :
    /\ Answered201(req[r]) /\ ~req[r].isNew /\ req[r].webhook = w.id
    /\ req[r].idempotencyKey = w.idempotencyKey /\ req[r].body.source # w.source
    /\ probe.op = "findOne" /\ probe.statusCode = 200 /\ probe.found = {w}

\* The step answers request r with 201 'Webhook received'.
AnswersReceived(r) ==
  /\ req[r].pc = "respond" /\ req'[r].pc = "done"
  /\ req'[r].resp.statusCode = 201 /\ req'[r].resp.message = "Webhook received"

\* The step is a GET /webhooks/:id with the valid API key.
GetsOne == probe = NoProbe /\ probe'.op = "GET /webhooks/:id" /\ probe'.apiKey = validApiKey

\* C21: read-your-writes. When a POST is answered 201 'Webhook received'
\* with id X the store holds a record with id X and the posted source, event
\* and payload; the record of every such answer stays in the store as it is;
\* and a GET /webhooks/X with the valid API key returns 200 with the id,
\* source, event and payload of the record X.
C21_ReadYourWrites ==
  [][/\ \A r \in Reqs :
          AnswersReceived(r) =>
            \E w \in store' : /\ w.id = req'[r].resp.id
                              /\ w.source = req[r].body.source
                              /\ w.event = req[r].body.event
                              /\ w.payload = req[r].body.payload
     /\ \A r \in Reqs :
          (Answered201(req[r]) /\ req[r].resp.message = "Webhook received") =>
            \E w \in store : w.id = req[r].resp.id /\ w \in store'
     /\ GetsOne =>
          \A w \in store :
            w.id = probe'.id =>
              /\ probe'.statusCode = 200
              /\ Len(probe'.data) = 1
              /\ probe'.data[1].id = w.id /\ probe'.data[1].source = w.source
              /\ probe'.data[1].event = w.event /\ probe'.data[1].payload = w.payload]_vars

\* A POST was answered 201 'Webhook received' with an id, and a GET of that
\* id has returned 200 with that id.
C21_Witness ==
  \E r \in Reqs :
    /\ Answered201(req[r]) /\ req[r].resp.message = "Webhook received"
    /\ probe.op = "GET /webhooks/:id" /\ probe.id = req[r].resp.id
    /\ probe.statusCode = 200 /\ probe.data[1].id = req[r].resp.id

\* The step is a call of service.findOne.
FindsOne == probe = NoProbe /\ probe'.op = "findOne"

\* C22: findOne(id) returns the record whose id is the argument when there
\* is one, and otherwise fails with NotFound, 404 'Webhook with ID "<id>" not
\* found'; either way the store is unchanged.
C22_FindOne ==
  [][FindsOne =>
       /\ store' = store
       /\ \A w \in store : w.id = probe'.id =>
            (probe'.found = {w} /\ probe'.statusCode = 200)
       /\ (\A w \in store : w.id # probe'.id) =>
            /\ probe'.found = {}
            /\ probe'.statusCode = 404
            /\ probe'.message =
                 "Webhook with ID \"" \o ToString(probe'.id) \o "\" not found"
            /\ probe'.id = 1 => probe'.message = "Webhook with ID \"1\" not found"]_vars

\* findOne has failed with 404 for an id that no record of a store of two
\* records has.
C22_Witness ==
  /\ probe.op = "findOne" /\ probe.statusCode = 404 /\ probe.found = {}
  /\ \E w \in store : \E x \in store : w.id # x.id
  /\ \A w \in store : w.id # probe.id

\* The records of the store that a query's source and event select.
Matching(q) ==
  {w \in store : /\ q.source # Undefined => w.source = q.source
                 /\ q.event # Undefined => w.event = q.event}

\* The step is a call of findAll.
FindsAll == probe = NoProbe /\ probe'.op = "findAll"

\* What findAll(q) has to return, said without the query builder: with
\* page and limit defaulting to 1 and 20 and skip = (page-1)*limit, the
\* data are min(limit, total - skip) different matching records, none of
\* them newer than the one before it, the i-th of which has at most
\* skip+i-1 matching records newer than itself and at least skip+i that are
\* as new or newer; the meta are total, page, limit and the least number of
\* pages of that limit that hold total records.
PageAsSpecified(q, data, meta) ==
  LET page == IF q.page = NoNumber THEN 1 ELSE q.page
      limit == IF q.limit = NoNumber THEN 20 ELSE q.limit
      skip == (page - 1) * limit
      total == Cardinality(Matching(q))
      rest == IF total > skip THEN total - skip ELSE 0
  IN /\ meta.total = total /\ meta.page = page /\ meta.limit = limit
     /\ meta.totalPages * limit >= total /\ (meta.totalPages - 1) * limit < total
     /\ meta.totalPages >= 0
     /\ Len(data) = IF rest < limit THEN rest ELSE limit
     /\ \A i \in 1..Len(data) :
          /\ \E w \in Matching(q) :
               /\ data[i] = [id |-> w.id, source |-> w.source, event |-> w.event,
                             payload |-> w.payload, receivedAt |-> w.receivedAt,
                             status |-> w.status]
          /\ \A j \in 1..Len(data) : i < j =>
               (data[i].id # data[j].id /\ data[i].receivedAt >= data[j].receivedAt)
          /\ Cardinality({w \in Matching(q) : w.receivedAt > data[i].receivedAt})
               <= skip + i - 1
          /\ Cardinality({w \in Matching(q) : w.receivedAt >= data[i].receivedAt})
               >= skip + i

\* C23: findAll returns the records matching the source/event filter in
\* receivedAt-descending order, skipping (page-1)*limit and returning at most
\* limit, with meta total, page, limit and totalPages = ceil(total/limit);
\* page and limit default to 1 and 20; with 25 records and limit 10 there are
\* 3 pages and page 3 holds the remaining 5 records.
C23_FindAllPage ==
  [][FindsAll =>
       /\ store' = store
       /\ PageAsSpecified(probe'.query, probe'.data, probe'.meta)
       /\ (/\ Cardinality(store) = 25 /\ probe'.query.limit = 10
           /\ probe'.query.source = Undefined /\ probe'.query.event = Undefined) =>
            /\ probe'.meta.totalPages = 3
            /\ probe'.query.page = 3 => Len(probe'.data) = 5]_vars

\* findAll has returned the third page of ten of a table of 25 records: 5
\* records, the oldest ones.
C23_Witness ==
  /\ probe.op = "findAll" /\ Cardinality(store) = 25
  /\ probe.query.page = 3 /\ probe.query.limit = 10
  /\ probe.query.source = Undefined /\ probe.query.event = Undefined
  /\ Len(probe.data) = 5 /\ probe.meta.totalPages = 3
  /\ probe.data[1].receivedAt = 5 /\ probe.data[5].receivedAt = 1

\* The table with the signature and the key of every record blanked.
Scrub(rows) ==
  {[w EXCEPT !.signature = NoSignature, !.idempotencyKey = Undefined] : w \in rows}

\* The step is a GET of one record or of a page.
Gets == probe = NoProbe /\ probe'.op \in {"GET /webhooks/:id", "GET /webhooks"}

\* C24: the responses of GET /webhooks/{id} and GET /webhooks do not expose
\* signature or idempotencyKey: every record in a response has exactly the
\* fields id, source, event, payload, receivedAt, status, and the response
\* is one that the table with all signatures and keys blanked gives to the
\* same request, so tables that differ in nothing else answer alike.
C24_NoSecretsInResponses ==
  [][Gets =>
       /\ \A i \in 1..Len(probe'.data) :
            DOMAIN probe'.data[i] =
              {"id", "source", "event", "payload", "receivedAt", "status"}
       /\ probe'.op = "GET /webhooks/:id" =>
            LET twin == getOne(Scrub(store), probe'.apiKey, probe'.id)
            IN /\ probe'.statusCode = twin.statusCode
               /\ probe'.message = twin.message /\ probe'.data = twin.data
       /\ probe'.op = "GET /webhooks" =>
            \E twin \in getAll(Scrub(store), probe'.apiKey, probe'.query) :
              /\ probe'.statusCode = twin.statusCode /\ probe'.message = twin.message
              /\ probe'.data = twin.data /\ probe'.meta = twin.meta]_vars

\* A GET has returned a record that the table holds with a key and a
\* signature.
C24_Witness ==
  /\ probe.op \in {"GET /webhooks/:id", "GET /webhooks"} /\ probe.statusCode = 200
  /\ Len(probe.data) >= 1
  /\ \E w \in store : /\ w.id = probe.data[1].id /\ w.idempotencyKey \in Keys
                      /\ w.signature # NoSignature
  /\ store # Scrub(store)

\* The filter has answered the probe's request.
ErrorAnswered == probe.op = "request" /\ probe.pc = "returned"

C26_FaultsAreOpaque ==
  (ErrorAnswered /\ probe.exception.kind # "HttpException") =>
    /\ probe.statusCode = 500
    /\ probe.body = [statusCode |-> 500, message |-> "Internal server error",
                     requestId |-> probe.responseHeader, timestamp |-> now,
                     path |-> probe.url]

\* The driver's rejection of an insert was answered with 500.
C26_Witness ==
  /\ ErrorAnswered /\ probe.exception = QueryFailedError
  /\ probe.body.statusCode = 500 /\ probe.body.message = "Internal server error"

\* C27: the POST handler answers {id: id of the record create returned,
\* message}, the message being 'Webhook received' exactly when create
\* returned isNew = true, that is when this call persisted the record, and
\* 'Webhook already processed (idempotent)' exactly when it returned false;
\* create is given the signature and idempotency key headers as they came
\* (the key undefined when absent).
C27_HandlerResponse ==
  [][\A r \in Reqs :
       /\ (req[r].pc = "respond" /\ req'[r].pc = "done") =>
            /\ req'[r].resp.statusCode = 201
            /\ req'[r].resp.id = req[r].webhook
            /\ \E w \in store : w.id = req'[r].resp.id
            /\ req'[r].resp.message = "Webhook received" <=> req[r].isNew
            /\ req'[r].resp.message = "Webhook already processed (idempotent)"
                 <=> ~req[r].isNew
       /\ (req[r].pc \in {"find", "save"} /\ req'[r].pc = "respond") =>
            /\ req'[r].isNew <=> store' # store
            /\ req'[r].isNew <=> req[r].pc = "save"
       /\ (req[r].pc = "idle" /\ req'[r].pc \in {"find", "save"}) =>
            /\ req'[r].signature = SignatureOf[req'[r].body]
            /\ req'[r].idempotencyKey \in Keys \cup {Undefined}
            /\ req'[r].idempotencyKey = Undefined <=>
                 req'[r].trace[3] = "Idempotency.skip"
            /\ req'[r].idempotencyKey = Undefined <=> req'[r].pc = "save"]_vars

\* One request was answered 'Webhook received' and another, without
\* restart or expiry in between, 'Webhook already processed (idempotent)'
\* with the same id by the handler itself.
C27_Witness ==
  \E r1 \in Reqs : \E r2 \in Reqs :
    /\ Answered201(req[r1]) /\ req[r1].isNew /\ req[r1].resp.message = "Webhook received"
    /\ Answered201(req[r2]) /\ ~req[r2].isNew /\ "found" \in Range(req[r2].trace)
    /\ req[r2].resp.message = "Webhook already processed (idempotent)"
    /\ req[r2].resp.id = req[r1].resp.id

\* C28: in every reachable state every entry (K, snapshot) of an
\* idempotency map has a persisted record whose idempotencyKey is K and
\* whose id is snapshot.id, whichever way requests with key K that missed
\* the map together store their responses afterwards.
C28_EntryHasRecord ==
  \A i \in Instances : \A k \in Keys :
    cache[i][k] # NoEntry =>
      \E w \in store : w.idempotencyKey = k /\ w.id = cache[i][k].data.id

\* Two requests with one key both missed the map, one persisted the
\* record and the other found it, both have stored their responses, and the
\* entry left is the one of the request that persisted.
C28_Witness ==
  \E r1 \in Reqs : \E r2 \in Reqs : \E i \in Instances :
    /\ r1 # r2 /\ req[r1].idempotencyKey = req[r2].idempotencyKey
    /\ Answered201(req[r1]) /\ Answered201(req[r2])
    /\ req[r1].trace[3] = "Idempotency.miss" /\ req[r2].trace[3] = "Idempotency.miss"
    /\ req[r1].isNew /\ ~req[r2].isNew
    /\ req[r1].idempotencyKey \in Keys
    /\ cache[i][req[r1].idempotencyKey].data =
         [id |-> req[r1].resp.id, message |-> "Webhook received"]

\* The step writes an entry under key k of instance i's map.
Writes(i, k) == cache'[i][k] # cache[i][k] /\ cache'[i][k] # NoEntry

\* C29: an entry of the idempotency map is written only when the handler
\* has completed: by the step that answers 201 to a request with that key,
\* and with that response; a step that ends a request with an error
\* (validation failure, rejected insert) writes no entry, and a response
\* replayed from the map is never an error.
C29_OnlySuccessIsCached ==
  [][/\ \A i \in Instances : \A k \in Keys :
          Writes(i, k) =>
            \E r \in Reqs :
              /\ req[r].pc = "respond" /\ req'[r].pc = "done"
              /\ req[r].idempotencyKey = k /\ req[r].inst = i
              /\ req'[r].resp.statusCode = 201
              /\ cache'[i][k].data = [id |-> req'[r].resp.id,
                                      message |-> req'[r].resp.message]
     /\ \A r \in Reqs :
          (req[r].pc # "done" /\ req'[r].pc = "done"
             /\ req'[r].resp.statusCode \in {400, 401, 403, 500}) =>
            \A i \in Instances : \A k \in Keys : ~Writes(i, k)
     /\ \A r \in Reqs :
          (req[r].pc = "idle" /\ req'[r].pc = "done"
             /\ "Idempotency.hit" \in Range(req'[r].trace)) =>
            /\ req'[r].resp.statusCode = 201
            /\ req'[r].resp.message \in {"Webhook received",
                                         "Webhook already processed (idempotent)"}]_vars

\* A request with a key has lost the insert to another one and was answered
\* 500 while the winner is yet to be answered: no map holds anything under
\* the key.
C29_Witness ==
  \E r1 \in Reqs : \E r2 \in Reqs :
    /\ req[r1].pc = "done" /\ req[r1].resp.statusCode = 500
    /\ req[r1].idempotencyKey \in Keys
    /\ req[r2].pc = "respond" /\ req[r2].isNew
    /\ req[r2].idempotencyKey = req[r1].idempotencyKey
    /\ \A i \in Instances : cache[i][req[r1].idempotencyKey] = NoEntry

\* The ids of the records persisted under the retry key.
WinnerIds == {w.id : w \in RowsWithKey(RetryKey)}

\* Request r, with a valid body, is in create while the key's record is
\* persisted.
Retrying(r) ==
  /\ req[r].pc \in {"find", "respond"} /\ req[r].bodyValid
  /\ req[r].idempotencyKey = RetryKey /\ WinnerIds # {}

\* Request r was answered 201 with the id of the key's record.
AnsweredWithWinner(r) ==
  Answered201(req[r]) /\ req[r].resp.id \in WinnerIds /\ Cardinality(WinnerIds) = 1

\* C30: once the winner's record is persisted under key K, every request
\* carrying K with valid credentials, signature and body is answered 201
\* with the winner's id, whether or not an earlier request with K was
\* answered with an error for having lost the insert: it is answered at
\* once from the map, or it enters create, where it finds the record and
\* is eventually answered; and this stays so.
C30_RetrySucceeds ==
  /\ [][\A r \in RetryReqs :
          (/\ req[r].pc = "idle" /\ req'[r].pc # "idle" /\ WinnerIds # {}
           /\ req'[r].bodyValid) =>
            \/ req'[r].pc = "find"
            \/ /\ req'[r].pc = "done" /\ req'[r].resp.statusCode = 201
               /\ req'[r].resp.id \in WinnerIds /\ Cardinality(WinnerIds) = 1]_vars
  /\ \A r \in RetryReqs : Retrying(r) ~> AnsweredWithWinner(r)

\* A request has lost the insert and was answered 500; a later request with
\* the key found the winner's record and was answered 201 with its id.
C30_Witness ==
  \E r1 \in RetryReqs : \E r3 \in RetryReqs :
    /\ r1 < r3
    /\ req[r1].pc = "done" /\ req[r1].resp.statusCode = 500
    /\ "save.rejected" \in Range(req[r1].trace)
    /\ AnsweredWithWinner(r3) /\ "found" \in Range(req[r3].trace)
    /\ req[r3].resp.message = "Webhook already processed (idempotent)"

\* C31 (as claimed): every POST answered 201 carried a body satisfying the
\* request constraints, also when it reused an idempotency key held in the
\* map.
C31_Only201ForValidBody ==
  \A r \in Reqs : Answered201(req[r]) => req[r].bodyValid

\* Request r was answered 201 by create, with a body that passed validation.
CreatedWithValidBody(r) ==
  /\ Answered201(req[r]) /\ req[r].bodyValid
  /\ "ValidationPipe" \in Range(req[r].trace)
  /\ "respond" \in Range(req[r].trace)

\* C31 (amended): a request enters create only with a body satisfying the
\* request constraints, and every POST answered 201 either was answered by
\* create with such a body, or carried an idempotency key and was answered
\* at the interceptor, before validation, with the response create gave to
\* an earlier request with that key and a valid body.
C31_Only201ForValidBodyOrReplay ==
  \A r \in Reqs :
    /\ req[r].pc \in InFlight => (BodyOk(req[r].body) /\ req[r].bodyValid)
    /\ Answered201(req[r]) =>
         \/ CreatedWithValidBody(r)
         \/ /\ req[r].trace = <<"ApiKeyGuard", "SignatureGuard", "Idempotency.hit">>
            /\ req[r].idempotencyKey \in Keys
            /\ \E r0 \in Reqs :
                 /\ r0 # r /\ CreatedWithValidBody(r0)
                 /\ req[r0].idempotencyKey = req[r].idempotencyKey
                 /\ req[r0].resp = req[r].resp

\* A request with a body that fails validation reused the key of an answered
\* request and got its 201, and another request with a failing body and no
\* usable entry was refused with 400.
C31_Witness ==
  \E r1 \in Reqs : \E r2 \in Reqs :
    /\ CreatedWithValidBody(r1)
    /\ Answered201(req[r2]) /\ ~req[r2].bodyValid
    /\ req[r2].idempotencyKey = req[r1].idempotencyKey
    /\ req[r2].resp = req[r1].resp

\* C32: for every payload P exactly one signature string is accepted by
\* verify, the lowercase hexadecimal string generate(P); a string differing
\* from it in letter case only, or continuing it with extra characters, is
\* rejected.
C32_OneAcceptedSignature ==
  Returned("verify") =>
    LET sig == generate(probe.payload)
    IN /\ probe.value <=> probe.signature = sig
       /\ (probe.signature # sig /\ toUpperCase(probe.signature) = toUpperCase(sig))
            => ~probe.value
       /\ (/\ Len(probe.signature) > Len(sig)
           /\ SubSeq(probe.signature, 1, Len(sig)) = sig) => ~probe.value

\* ------------------------------------------------- the interceptor alone
\* IdempotencyInterceptor on requests of every method, with and without the
\* header, in front of a handler that always returns: the interceptor is
\* registered for the whole application and does not look at the route.
HeaderKeys == Keys \cup {Undefined, ""}
\* What the handler behind the interceptor returns.
HandlerData == createResponse(1, TRUE)

\* intercept(context, next) up to the cached reply or the call of
\* next.handle()
InterceptStep(r) ==
  /\ req[r].pc = "idle"
  /\ \A q \in Reqs : q < r => req[q].pc # "idle"
  /\ \E m \in Methods : \E k \in HeaderKeys : \E i \in instances :
       LET idem == intercept(cache[i], now, m, k)
       IN /\ cache' = [cache EXCEPT ![i] = idem.cache]
          /\ req' = [req EXCEPT ![r] =
               IF idem.applies /\ idem.cached # NoEntry
                 THEN [IdleRequest EXCEPT
                         !.pc = "done", !.inst = i, !.method = m,
                         !.idempotencyKey = k,
                         !.resp = Response(201, idem.cached.data.id,
                                           idem.cached.data.message, <<>>),
                         !.trace = <<"Idempotency.hit">>]
                 ELSE [IdleRequest EXCEPT
                         !.pc = "respond", !.inst = i, !.method = m,
                         !.idempotencyKey = k, !.tap = idem.applies,
                         !.trace = <<IF idem.applies THEN "Idempotency.miss"
                                                     ELSE "Idempotency.skip",
                                     "handler">>]]
  /\ UNCHANGED <<store, now, nextId, ticks, instances, probe>>

\* next.handle() emits the handler's value; the tap, where the interceptor
\* attached one, stores it under the key.
HandleStep(r) ==
  /\ req[r].pc = "respond"
  /\ cache' = IF req[r].tap
                THEN [cache EXCEPT ![req[r].inst][req[r].idempotencyKey] =
                                      Entry(HandlerData, now)]
                ELSE cache
  /\ req' = [req EXCEPT ![r].pc = "done",
               ![r].resp = Response(IF req[r].method = "POST" THEN 201 ELSE 200,
                                    HandlerData.id, HandlerData.message, <<>>),
               ![r].trace = Append(@, "respond")]
  /\ UNCHANGED <<store, now, nextId, ticks, instances, probe>>

NextIntercept ==
  \/ \E r \in Reqs : InterceptStep(r)
  \/ \E r \in Reqs : HandleStep(r)
  \/ Tick

SpecIntercept == Init /\ [][NextIntercept]_vars

\* The request is one the interceptor applies to: a mutating method and a
\* non-empty X-Idempotency-Key.
Keyed(q) == q.method \in {"POST", "PUT", "PATCH"} /\ q.idempotencyKey \in Keys

\* C33: the idempotency map is touched only by requests whose method is
\* POST, PUT or PATCH and that carry a non-empty X-Idempotency-Key; any
\* other request (GET or DELETE even with the header, a mutating one with
\* no header or an empty one) causes no sweep, no lookup and no store,
\* leaves the map as it is, and is passed to the handler.
C33_OnlyKeyedMutatingTouchCache ==
  [][/\ \A r \in Reqs :
          (req[r].pc = "idle" /\ req'[r].pc # "idle" /\ ~Keyed(req'[r])) =>
            /\ cache' = cache
            /\ req'[r].pc = "respond" /\ ~req'[r].tap
            /\ req'[r].trace = <<"Idempotency.skip", "handler">>
     /\ \A r \in Reqs :
          (req[r].pc = "respond" /\ req'[r].pc = "done" /\ ~Keyed(req[r])) =>
            /\ cache' = cache
            /\ req'[r].resp.id = HandlerData.id
     /\ cache' # cache =>
          \E r \in Reqs : req'[r] # req[r] /\ Keyed(req'[r])]_vars

\* A GET carrying a key whose entry in the map has expired went through to
\* the handler and was answered by it, and the expired entry is still there.
C33_Witness ==
  \E r \in Reqs : \E k \in Keys :
    /\ req[r].pc = "done" /\ req[r].method = "GET" /\ req[r].idempotencyKey = k
    /\ req[r].trace = <<"Idempotency.skip", "handler", "respond">>
    /\ cache[req[r].inst][k] # NoEntry /\ ~Unexpired(req[r].inst, k)

\* --------------------------------------------------- effects of requests
\* POST /api/v1/webhooks and GET /api/v1/webhooks/:id on one instance while
\* the clock advances: every request that can end in 401, 403, 400, 404 or
\* 500, with entries of the map expiring in between.
PostStep == probe = NoProbe /\ (NextPost \/ Tick)
\* A GET /api/v1/webhooks/:id between two POST requests.
GetStep == (\A r \in Reqs : req[r].pc \notin InFlight) /\ GetOneCall

NextEffects ==
  \/ PostStep
  \/ GetStep
  \/ ReadReturn

SpecEffects == Init /\ [][NextEffects]_vars

ErrorStatuses == {401, 403, 400, 404, 500}
\* The step answers POST request r with an error.
EndsInError(r) ==
  /\ req[r].pc # "done" /\ req'[r].pc = "done"
  /\ req'[r].resp.statusCode \in ErrorStatuses
\* The step answers a GET /webhooks/:id with an error.
GetEndsInError ==
  /\ probe = NoProbe /\ probe'.op = "GET /webhooks/:id"
  /\ probe'.statusCode \in ErrorStatuses
\* The map after the step is the map before it, less entries older than
\* the retention window.
OnlySwept ==
  \A i \in Instances : \A k \in Keys :
    \/ cache'[i][k] = cache[i][k]
    \/ cache'[i][k] = NoEntry /\ now - cache[i][k].timestamp > TTL

\* C34 (as claimed): a request that ends in an error response (401, 403,
\* 400, 404 or 500) leaves the record store and the contents of the
\* idempotency map exactly as they were.
C34_ErrorLeavesStoreAndCache ==
  [][/\ \A r \in Reqs : EndsInError(r) => (store' = store /\ cache' = cache)
     /\ GetEndsInError => (store' = store /\ cache' = cache)]_vars

\* C34 (amended): a request that ends in an error response creates and
\* changes no record and adds and replaces no entry of the map; one that
\* ends in 401, 403 or 404, or carries no idempotency key, leaves the map
\* exactly as it was, while a POST with a key that passed both guards has
\* swept the map before it fails with 400 or 500: entries older than the
\* retention window may be gone, and nothing else differs. The steps of a
\* request before its insert (the admission and the lookup by key) change
\* no record, and the map by the sweep alone.
C34_ErrorOnlySweeps ==
  [][/\ \A r \in Reqs :
          EndsInError(r) =>
            /\ store' = store /\ OnlySwept
            /\ \A i \in Instances : \A k \in Keys : ~Writes(i, k)
            /\ cache' # cache =>
                 /\ req'[r].resp.statusCode = 400
                 /\ req'[r].idempotencyKey \in Keys
                 /\ req'[r].trace[3] = "Idempotency.miss"
            /\ req'[r].resp.statusCode = 500 =>
                 (cache' = cache /\ req[r].pc = "save")
     /\ \A r \in Reqs :
          (req[r].pc \in {"idle", "find"} /\ req'[r] # req[r]) =>
            /\ store' = store /\ OnlySwept
            /\ req[r].pc = "find" => cache' = cache
     /\ GetEndsInError => (store' = store /\ cache' = cache)]_vars

\* A keyed POST with a failing body was refused with 400 after its sweep had
\* removed the expired entry of an earlier request; the record of that
\* request is still the only one.
C34_Witness ==
  \E r1 \in Reqs : \E r2 \in Reqs :
    /\ Answered201(req[r1]) /\ req[r1].idempotencyKey \in Keys
    /\ "respond" \in Range(req[r1].trace)
    /\ req[r2].pc = "done" /\ req[r2].resp.statusCode = 400
    /\ req[r2].idempotencyKey \in Keys
    /\ cache["A"][req[r1].idempotencyKey] = NoEntry
    /\ Cardinality(store) = 1

\* The stage of the interceptor in a trace.
InterceptorStages == {"Idempotency.hit", "Idempotency.miss", "Idempotency.skip"}
\* The positions of the stages S in a trace.
Positions(trace, S) == {n \in DOMAIN trace : trace[n] \in S}
\* Every stage of S1 in the trace comes before every stage of S2.
Before(trace, S1, S2) ==
  \A m \in Positions(trace, S1) : \A n \in Positions(trace, S2) : m < n

PageQuery(p, limit, source, event) ==
  [page |-> p, limit |-> limit, source |-> source, event |-> event]
\* The ids of the records on a page.
IdsOn(result) == {result.data[i].id : i \in DOMAIN result.data}
\* The pages 1..totalPages that findAll can return for the table as it is
\* partition the matching records, in receivedAt-descending order.
PagesPartition(limit, source, event) ==
  LET q(p) == PageQuery(p, limit, source, event)
      matching == Matching(q(1))
      totalPages == (CHOOSE r \in findAll(store, q(1)) : TRUE).meta.totalPages
  IN /\ \A w \in matching :
          \E p \in 1..totalPages : \A r \in findAll(store, q(p)) : w.id \in IdsOn(r)
     /\ \A p1 \in 1..totalPages : \A p2 \in 1..totalPages :
          p1 < p2 =>
            \A r1 \in findAll(store, q(p1)) : \A r2 \in findAll(store, q(p2)) :
              /\ IdsOn(r1) \cap IdsOn(r2) = {}
              /\ \A i \in DOMAIN r1.data : \A j \in DOMAIN r2.data :
                   r1.data[i].receivedAt >= r2.data[j].receivedAt
     /\ \A p \in 1..totalPages : \A r \in findAll(store, q(p)) :
          /\ p < totalPages => Len(r.data) = limit
          /\ IdsOn(r) \subseteq {w.id : w \in matching}
          /\ Cardinality(IdsOn(r)) = Len(r.data)

\* C36: for an unchanged table and a fixed filter and limit, the pages
\* 1..totalPages that findAll returns partition the matching records: each
\* record is on exactly one page, every page but the last holds limit
\* records, and the pages in order give the records in receivedAt-descending
\* order, also when several records share the same receivedAt.
C36_PagesPartition ==
  \A limit \in {1, 2, ManyLimit} : \A source \in SourceFilters :
    \A event \in EventFilters : PagesPartition(limit, source, event)

====
